---- MODULE Spec2Model ----
(***************************************************************************)
(* DocIntel: the document store of DocumentProvider (second provider in    *)
(* src/src/contexts/DocumentContext.tsx), the upload handler of the        *)
(* Documents page that drives it, and the mock query engine of             *)
(* QueryProvider (src/src/App.tsx).                                        *)
(*                                                                         *)
(* One action is one browser task: a user event handler run to its first   *)
(* real suspension (file read, timer), or the continuation that a file     *)
(* read or a timer resumes, run to the next suspension.  Continuations     *)
(* that only chain promises (an `await` of an already settled call) stay   *)
(* in the same action, because no other task can run between microtasks.   *)
(*                                                                         *)
(* A function of a React component reads the `documents` of the render     *)
(* that created it; `setDocuments(prev => ...)` works on the latest state. *)
(* A click handler runs the closure of the latest render, so its           *)
(* `documents` is the current state.  A handler that stays alive over      *)
(* several awaits (handleFileUpload) keeps the closure it started with:    *)
(* that snapshot is the `snap` field of the handler.                       *)
(***************************************************************************)
EXTENDS Integers, Sequences, FiniteSets, TLC

\* ------------------------------------------------------------------ bounds
MaxOps == 2         \* user operations (drops, clicks) over a run
MaxTicks == 1       \* clock ticks over a run
MaxQueries == 2     \* processQuery calls over a run

\* ---------------------------------------------------------------- helpers
Range(s) == {s[i] : i \in 1..Len(s)}

RemoveAt(s, i) == SubSeq(s, 1, i - 1) \o SubSeq(s, i + 1, Len(s))

\* An optional field: <<>> is JavaScript's undefined, <<v>> a present value.
Undefined == <<>>
Some(v) == <<v>>

\* ------------------------------------------------------- file validation
FILE_VALIDATION ==
  [maxSize |-> 10 * 1024 * 1024,
   allowedTypes |-> {"application/pdf", "application/msword",
      "application/vnd.openxmlformats-officedocument.wordprocessingml.document",
      "text/plain", "image/jpeg", "image/png", "image/gif"},
   allowedExtensions |-> {"pdf", "doc", "docx", "txt", "jpg", "jpeg", "png", "gif"}]

ErrSize == "File size exceeds maximum limit of 10MB"
ErrType == "File type is not supported"
ErrExtension == "File extension is not supported"
ErrDuplicate == "A file with that name already exists"

\* String.prototype.toLowerCase on the name parts the model uses.
ToLowerCase(s) ==
  CASE s = "PNG" -> "png"
    [] s = "PDF" -> "pdf"
    [] s = "README" -> "readme"
    [] s = "Admin@DocIntel.com" -> "admin@docintel.com"
    [] OTHER -> s

\* A file name is the sequence of its dot-separated parts, file.name.split('.');
\* the extension is the last part, lowercased.
Extension(name) == ToLowerCase(name[Len(name)])

NameExists(docs, name) == \E i \in 1..Len(docs) : docs[i].name = name

validateFile_SizeLast(file, docs) ==
  IF file.type \notin FILE_VALIDATION.allowedTypes
    THEN [isValid |-> FALSE, error |-> ErrType]
  ELSE IF Extension(file.name) = "" \/ Extension(file.name) \notin FILE_VALIDATION.allowedExtensions
    THEN [isValid |-> FALSE, error |-> ErrExtension]
  ELSE IF NameExists(docs, file.name)
    THEN [isValid |-> FALSE, error |-> ErrDuplicate]
  ELSE IF file.size > FILE_VALIDATION.maxSize
    THEN [isValid |-> FALSE, error |-> ErrSize]
  ELSE [isValid |-> TRUE, error |-> ""]

validateFile_NoExtensionCheck(file, docs) ==
  IF file.size > FILE_VALIDATION.maxSize
    THEN [isValid |-> FALSE, error |-> ErrSize]
  ELSE IF file.type \notin FILE_VALIDATION.allowedTypes
    THEN [isValid |-> FALSE, error |-> ErrType]
  ELSE IF NameExists(docs, file.name)
    THEN [isValid |-> FALSE, error |-> ErrDuplicate]
  ELSE [isValid |-> TRUE, error |-> ""]

validateFile(file, docs) ==
  IF file.size > FILE_VALIDATION.maxSize
    THEN [isValid |-> FALSE, error |-> ErrSize]
  ELSE IF file.type \notin FILE_VALIDATION.allowedTypes
    THEN [isValid |-> FALSE, error |-> ErrType]
  ELSE IF Extension(file.name) = "" \/ Extension(file.name) \notin FILE_VALIDATION.allowedExtensions
    THEN [isValid |-> FALSE, error |-> ErrExtension]
  ELSE IF NameExists(docs, file.name)
    THEN [isValid |-> FALSE, error |-> ErrDuplicate]
  ELSE [isValid |-> TRUE, error |-> ""]

\* ------------------------------------------------------------ input files
NReport == <<"report", "pdf">>
NPhoto == <<"photo", "PNG">>
NSetup == <<"setup", "exe">>
NReadme == <<"README">>
NTrailingDot == <<"notes", "">>
NDental == <<"Dental Coverage Guidelines", "docx">>

File(name, type, size, content) ==
  [name |-> name, type |-> type, size |-> size, content |-> content]

SmallSize == 1000
OverSize == FILE_VALIDATION.maxSize + 1

\* Files a user can hand over: valid ones, one failing each single check, and
\* oversized ones that pass or fail the other checks.
ValidFiles ==
  { File(NReport, "application/pdf", SmallSize, "c1"),
    File(NReport, "application/pdf", FILE_VALIDATION.maxSize, "c2"),
    File(NPhoto, "image/png", SmallSize, "c1") }

InvalidFiles ==
  { File(NReport, "application/x-msdownload", SmallSize, "c1"),
    File(NSetup, "application/pdf", SmallSize, "c1"),
    File(NSetup, "application/x-msdownload", SmallSize, "c1"),
    File(NReadme, "text/plain", SmallSize, "c1"),
    File(NTrailingDot, "text/plain", SmallSize, "c1"),
    File(NDental, "application/msword", SmallSize, "c2"),
    File(NReport, "application/pdf", OverSize, "c1"),
    File(NSetup, "application/x-msdownload", OverSize, "c1"),
    File(NDental, "application/pdf", OverSize, "c1") }

Files == ValidFiles \cup InvalidFiles


\* -------------------------------------------------------- document records
Document(id, name, type, size, uploadedAt, status, category, starred, version,
         processedAt, errorMessage, fileData, checksum) ==
  [id |-> id, name |-> name, type |-> type, size |-> size,
   uploadedAt |-> uploadedAt, status |-> status, category |-> category,
   starred |-> starred, version |-> version, processedAt |-> processedAt,
   errorMessage |-> errorMessage, fileData |-> fileData, checksum |-> checksum]

\* Time is counted in ticks of Date.now(); the sample records carry the three
\* consecutive days of January 2024 as ticks 3, 2, 1 and were processed within
\* the tick of their upload.
sampleDocuments ==
  << Document(1, <<"Health Insurance Policy v2", "1", "pdf">>, "pdf", 2456789, 3,
              "processed", "policy", TRUE, 2, Some(3), Undefined, Undefined,
              Some(<<"sha256", "abc123def456">>)),
     Document(2, NDental, "docx", 1234567, 2,
              "processed", "policy", FALSE, 1, Some(2), Undefined, Undefined,
              Some(<<"sha256", "def456ghi789">>)),
     Document(3, <<"Pre-existing Conditions List", "pdf">>, "pdf", 987654, 1,
              "processed", "medical", FALSE, 1, Some(1), Undefined, Undefined,
              Some(<<"sha256", "ghi789jkl012">>)) >>

SampleIds == {sampleDocuments[i].id : i \in 1..Len(sampleDocuments)}

\* The clock reads StartTime when the provider mounts, long after the samples.
StartTime == 20

\* Date.now().toString() + Math.random().toString(36).substr(2, 9): the clock
\* reading followed by a random suffix.  The suffix r is taken never to repeat
\* (nextRand counts the draws), the usual reading of a random nonce.
IdRadix == 1000
NewId(t, r) == t * IdRadix + r

\* An id no record ever had.
UnknownId == NewId(0, 0)

generateChecksum(file) == Some(<<"sha256", file.content>>)
fileToBase64(file) == Some(<<"base64", file.content>>)

NewDocument_Processed(file, id, t) ==
  Document(id, file.name, Extension(file.name), file.size, t, "processed",
           "policy", FALSE, 1, Undefined, Undefined,
           fileToBase64(file), generateChecksum(file))

NewDocument(file, id, t) ==
  Document(id, file.name, Extension(file.name), file.size, t, "processing",
           "policy", FALSE, 1, Undefined, Undefined,
           fileToBase64(file), generateChecksum(file))

\* { ...doc, ...updates }: the fields of updates replace those of doc.
Merge(doc, updates) ==
  [f \in DOMAIN doc \cup DOMAIN updates |->
     IF f \in DOMAIN updates THEN updates[f] ELSE doc[f]]

MapDocs_BumpsVersion(docs, id, updates) ==
  [i \in 1..Len(docs) |->
     IF docs[i].id = id
       THEN Merge(Merge(docs[i], updates), [version |-> docs[i].version + 1])
       ELSE docs[i]]

MapDocs_Upserts(docs, id, updates) ==
  IF \E i \in 1..Len(docs) : docs[i].id = id
    THEN [i \in 1..Len(docs) |->
            IF docs[i].id = id THEN Merge(docs[i], updates) ELSE docs[i]]
    ELSE Append(docs, Merge(Document(id, NReport, "pdf", SmallSize, 0, "processing",
                                     "policy", FALSE, 1, Undefined, Undefined,
                                     Undefined, Undefined), updates))

\* prev.map(doc => doc.id === id ? { ...doc, ...updates } : doc)
MapDocs(docs, id, updates) ==
  [i \in 1..Len(docs) |-> IF docs[i].id = id THEN Merge(docs[i], updates) ELSE docs[i]]

FindDoc(docs, id) ==
  IF \E i \in 1..Len(docs) : docs[i].id = id
    THEN Some(docs[CHOOSE i \in 1..Len(docs) :
                     docs[i].id = id /\ \A j \in 1..(i - 1) : docs[j].id # id])
    ELSE Undefined

\* --------------------------------------------------------------- statistics
RECURSIVE Reduce(_, _, _)
Reduce(op(_, _), docs, acc) ==
  IF docs = <<>> THEN acc ELSE Reduce(op, Tail(docs), op(acc, Head(docs)))

CountWhere(docs, P(_)) == Len(SelectSeq(docs, P))

calculateStats_SkipsProcessing(docs) ==
  [totalFiles |-> Len(docs),
   totalSize |-> Reduce(LAMBDA acc, doc : acc + doc.size,
                        SelectSeq(docs, LAMBDA doc : doc.status # "processing"), 0),
   processingFiles |-> CountWhere(docs, LAMBDA doc : doc.status = "processing"),
   processedFiles |-> CountWhere(docs, LAMBDA doc : doc.status = "processed"),
   errorFiles |-> CountWhere(docs, LAMBDA doc : doc.status = "error"),
   starredFiles |-> CountWhere(docs, LAMBDA doc : doc.starred),
   categoryCounts |-> [c \in {docs[i].category : i \in 1..Len(docs)} |->
                         CountWhere(docs, LAMBDA doc : doc.category = c)],
   typeCounts |-> [t \in {docs[i].type : i \in 1..Len(docs)} |->
                     CountWhere(docs, LAMBDA doc : doc.type = t)]]

calculateStats(docs) ==
  [totalFiles |-> Len(docs),
   totalSize |-> Reduce(LAMBDA acc, doc : acc + doc.size, docs, 0),
   processingFiles |-> CountWhere(docs, LAMBDA doc : doc.status = "processing"),
   processedFiles |-> CountWhere(docs, LAMBDA doc : doc.status = "processed"),
   errorFiles |-> CountWhere(docs, LAMBDA doc : doc.status = "error"),
   starredFiles |-> CountWhere(docs, LAMBDA doc : doc.starred),
   categoryCounts |-> [c \in {docs[i].category : i \in 1..Len(docs)} |->
                         CountWhere(docs, LAMBDA doc : doc.category = c)],
   typeCounts |-> [t \in {docs[i].type : i \in 1..Len(docs)} |->
                     CountWhere(docs, LAMBDA doc : doc.type = t)]]


\* ------------------------------------------------------------------ delete
deleteFilter_KeepsAll(docs, id) == docs

deleteFilter(docs, id) == SelectSeq(docs, LAMBDA doc : doc.id # id)

bulkFilter_DropsFirstOnly(docs, ids) ==
  IF \E i \in 1..Len(docs) : docs[i].id \in ids
    THEN RemoveAt(docs, CHOOSE i \in 1..Len(docs) :
                          docs[i].id \in ids /\ \A j \in 1..(i - 1) : docs[j].id \notin ids)
    ELSE docs

bulkFilter(docs, ids) == SelectSeq(docs, LAMBDA doc : doc.id \notin ids)

\* ----------------------------------------------------------------- cleanup
sevenDays == 7

GroupKey(doc) == <<doc.name, doc.size>>

\* The keys of the `duplicates` map, in insertion order.
RECURSIVE GroupKeys(_, _)
GroupKeys(docs, seen) ==
  IF docs = <<>> THEN seen
  ELSE IF \E i \in 1..Len(seen) : seen[i] = GroupKey(Head(docs))
    THEN GroupKeys(Tail(docs), seen)
    ELSE GroupKeys(Tail(docs), Append(seen, GroupKey(Head(docs))))

GroupOf(docs, key) == SelectSeq(docs, LAMBDA doc : GroupKey(doc) = key)

\* docs.sort((a, b) => time(b.uploadedAt) - time(a.uploadedAt)): a stable sort,
\* latest first; records of equal uploadedAt keep their order.
RECURSIVE InsertLatestFirst(_, _)
InsertLatestFirst(sorted, doc) ==
  IF sorted = <<>> THEN <<doc>>
  ELSE IF Head(sorted).uploadedAt >= doc.uploadedAt
    THEN <<Head(sorted)>> \o InsertLatestFirst(Tail(sorted), doc)
    ELSE <<doc>> \o sorted

RECURSIVE InsertOldestFirst(_, _)
InsertOldestFirst(sorted, doc) ==
  IF sorted = <<>> THEN <<doc>>
  ELSE IF Head(sorted).uploadedAt <= doc.uploadedAt
    THEN <<Head(sorted)>> \o InsertOldestFirst(Tail(sorted), doc)
    ELSE <<doc>> \o sorted

SortLatestFirst_OldestFirst(docs) ==
  Reduce(LAMBDA acc, doc : InsertOldestFirst(acc, doc), docs, <<>>)

SortLatestFirst(docs) ==
  Reduce(LAMBDA acc, doc : InsertLatestFirst(acc, doc), docs, <<>>)

\* toRemove.forEach(doc => { index = findIndex(d => d.id === doc.id);
\*                           if (index > -1) { splice(index, 1); cleanupCount++ } })
\* on the pair [docs, count].
SpliceById(state, doc) ==
  IF \E i \in 1..Len(state.docs) : state.docs[i].id = doc.id
    THEN [docs |-> RemoveAt(state.docs,
                     CHOOSE i \in 1..Len(state.docs) :
                       state.docs[i].id = doc.id
                       /\ \A j \in 1..(i - 1) : state.docs[j].id # doc.id),
          count |-> state.count + 1]
    ELSE state

\* First pass: of every (name, size) group of `documents` with more than one
\* record, all but the latest are spliced out of updatedDocuments.
RemoveDuplicates(docs) ==
  Reduce(LAMBDA state, key :
           IF Len(GroupOf(docs, key)) > 1
             THEN Reduce(SpliceById, Tail(SortLatestFirst(GroupOf(docs, key))), state)
             ELSE state,
         GroupKeys(docs, <<>>), [docs |-> docs, count |-> 0])

RemoveStaleErrors_AtCutoff(state, t) ==
  Reduce(SpliceById,
         SelectSeq(state.docs, LAMBDA doc :
                     doc.status = "error" /\ doc.uploadedAt <= t - sevenDays),
         state)

\* Second pass: records in error uploaded more than seven days before t.
RemoveStaleErrors(state, t) ==
  Reduce(SpliceById,
         SelectSeq(state.docs, LAMBDA doc :
                     doc.status = "error" /\ doc.uploadedAt < t - sevenDays),
         state)

cleanupResult(docs, t) == RemoveStaleErrors(RemoveDuplicates(docs), t)


\* The ids of the records of docs.
Ids(docs) == {docs[i].id : i \in 1..Len(docs)}


\* The last operation of AuthProvider: its name and the error it threw, if any.
AuthOp(op, error) == [op |-> op, error |-> error]

\* What a FileStorageManager operation did: its name, whether its
\* localStorage.setItem was not reached ("none"), returned ("ok") or threw
\* ("threw"), the error it threw to its caller and the value it returned.
FileOp(op, write, error, value) ==
  [op |-> op, write |-> write, error |-> error, value |-> value]

\* window.localStorage with the two keys of AuthProvider and the key of
\* FileStorageManager, all absent.
StorageKeys == {"docintel_user", "docintel_remember", "docintel_files"}
EmptyStorage == [k \in StorageKeys |-> Undefined]


\* ==================================================================== state
VARIABLES
  documents,   \* the `documents` state of DocumentProvider
  now,         \* Date.now(), in ticks
  nextRand,    \* number of Math.random() suffixes drawn for ids
  handlers,    \* handleFileUpload invocations, by slot
  timers,      \* pending processDocument timers
  toasts,      \* the notifications the last task showed, in order
  validated,   \* the validateFile calls of the last task: file and result
  lastOp,      \* the last task: operation, ids, records removed
  nOps,        \* user operations so far (bounded runs)
  everProcessed,   \* ids of the records whose status has been 'processed'
  created,         \* records made by the current or last handleFileUpload call, by slot
  isProcessing,    \* the `isProcessing` state of QueryProvider
  lastResult,      \* its `lastResult`: null or a result
  queryHistory,    \* its `queryHistory`, latest first
  pendingQueries,  \* the processQuery calls waiting in their delay
  user,            \* the `user` state of AuthProvider: null or a user
  isLoading,       \* its `isLoading`
  localStorage,    \* window.localStorage: each key absent or with its text
  pendingLogins,   \* the login calls waiting in their delay
  authOp,          \* the last operation of AuthProvider and what it threw
  pendingStores,   \* the storeFile calls waiting for their file reads
  fileOp,          \* the last operation of FileStorageManager and its outcome
  currentPage,     \* the `currentPage` state of the Documents page
  selectedFilter,  \* its `selectedFilter`: 'all' or a type
  selectedFiles,   \* the `selectedFiles` state of FileUploadZone
  boxStatus,       \* the `status` state of ProcessingBox
  progress,        \* its `progress`
  processedContent,  \* its `processedContent`
  runs,            \* the processContent calls in their loop: the next value of i
  delivered,       \* the results onProcess has been called with, in order
  boxOp            \* the last button pressed in ProcessingBox

storeVars == <<documents, now, nextRand, handlers, timers, toasts, validated,
               lastOp, nOps, everProcessed, created>>
queryVars == <<isProcessing, lastResult, queryHistory, pendingQueries>>
authVars == <<user, isLoading, localStorage, pendingLogins, authOp>>
fileVars == <<pendingStores, fileOp>>
pageVars == <<currentPage, selectedFilter>>
zoneVars == <<selectedFiles>>
boxVars == <<boxStatus, progress, processedContent, runs, delivered, boxOp>>
uiVars == <<pageVars, zoneVars, boxVars>>
nonStoreVars == <<queryVars, authVars, fileVars, uiVars>>
nonQueryVars == <<storeVars, authVars, fileVars, uiVars>>
vars == <<storeVars, queryVars, authVars, fileVars, uiVars>>

Handlers == {1}

Toast(kind, title, message, n) ==
  [kind |-> kind, title |-> title, message |-> message, n |-> n]

\* The last task: the operation, the ids it was given (or made), the records it
\* removed from the collection.
Op(op, ids, removed) == [op |-> op, ids |-> ids, removed |-> removed]

IdleHandler == [pc |-> "idle", snap |-> <<>>, queue |-> <<>>, successCount |-> 0]

\* The ids a caller can pass: those of the records shown and one never issued;
\* a repeated call passes the ids of the last operation again.
IdInputs == {documents[i].id : i \in 1..Len(documents)} \cup {UnknownId}
RepeatInputs == IdInputs \cup lastOp.ids

\* The ids whose status has been 'processed', once the collection is docs.
Processed(docs) ==
  everProcessed \cup {docs[i].id : i \in {j \in 1..Len(docs) : docs[j].status = "processed"}}

Init ==
  /\ documents = sampleDocuments
  /\ now = StartTime
  /\ nextRand = 0
  /\ handlers = [h \in Handlers |-> IdleHandler]
  /\ timers = <<>>
  /\ toasts = <<>>
  /\ validated = <<>>
  /\ lastOp = Op("mount", {}, <<>>)
  /\ nOps = 0
  /\ everProcessed = {doc.id : doc \in {d \in Range(sampleDocuments) : d.status = "processed"}}
  /\ created = [h \in Handlers |-> 0]
  /\ isProcessing = FALSE
  /\ lastResult = Undefined
  /\ queryHistory = <<>>
  /\ pendingQueries = <<>>
  /\ user = Undefined
  /\ isLoading = FALSE
  /\ localStorage = EmptyStorage
  /\ pendingLogins = <<>>
  /\ authOp = AuthOp("mount", Undefined)
  /\ pendingStores = <<>>
  /\ fileOp = FileOp("none", "none", Undefined, Undefined)
  /\ currentPage = 1
  /\ selectedFilter = "all"
  /\ selectedFiles = <<>>
  /\ boxStatus = "idle"
  /\ progress = 0
  /\ processedContent = <<>>
  /\ runs = <<>>
  /\ delivered = <<>>
  /\ boxOp = "mount"

\* ------------------------------------------------------------------ upload
\* The for-loop of handleFileUpload from the file at the head of queue on, up to
\* the first file whose uploadDocument call suspends (validation passed, the
\* checksum and the base64 payload are being computed) or to the end of the
\* loop.  uploadDocument returns normally when validation fails, so the loop
\* counts the file in successCount; errorCount stays 0 because uploadDocument
\* catches every error itself.  Result: the handler, the toasts, the validations.
RECURSIVE RunLoop(_, _, _, _, _)
RunLoop(snap, queue, successCount, shown, checked) ==
  IF queue = <<>>
    THEN [handler |-> IdleHandler,
          toasts |-> IF successCount > 0
                       THEN Append(shown, Toast("success", "Upload Complete",
                                                "file(s) uploaded successfully", successCount))
                       ELSE shown,
          validated |-> checked]
  ELSE LET file == Head(queue)
           validation == validateFile(file, snap)
       IN IF validation.isValid
            THEN [handler |-> [pc |-> "hash", snap |-> snap, queue |-> queue,
                               successCount |-> successCount],
                  toasts |-> shown,
                  validated |-> Append(checked, [file |-> file, result |-> validation])]
            ELSE RunLoop(snap, Tail(queue), successCount + 1,
                         Append(shown, Toast("error", "Upload Failed", validation.error, 0)),
                         Append(checked, [file |-> file, result |-> validation]))

\* What a user drops or picks: one file, or two files of a small choice.
BatchFiles ==
  { File(NReport, "application/pdf", SmallSize, "c1"),
    File(NSetup, "application/x-msdownload", OverSize, "c1") }
DropInputs == {<<f>> : f \in Files} \cup {<<f, g>> : f \in BatchFiles, g \in BatchFiles}

\* handleDrop / handleFileInput -> handleFileUpload(files)
HandleFileUpload(h, files) ==
  /\ handlers[h].pc = "idle"
  /\ nOps < MaxOps
  /\ LET r == RunLoop(documents, files, 0, <<>>, <<>>)
     IN /\ handlers' = [handlers EXCEPT ![h] = r.handler]
        /\ toasts' = r.toasts
        /\ validated' = r.validated
  /\ nOps' = nOps + 1
  /\ lastOp' = Op("handleFileUpload", {}, <<>>)
  /\ created' = [created EXCEPT ![h] = 0]
  /\ UNCHANGED <<documents, now, nextRand, timers, everProcessed, nonStoreVars>>

\* uploadDocument after Promise.all([generateChecksum, fileToBase64]) resolved:
\* the record is built and prepended, then processDocument starts its timer.
\* processDocument later looks the record up in the `documents` of its closure,
\* the handler's snapshot, to show its toast: `doc` is what it will find.
UploadStored(h) ==
  /\ handlers[h].pc = "hash"
  /\ LET file == Head(handlers[h].queue)
         id == NewId(now, nextRand)
     IN /\ documents' = <<NewDocument(file, id, now)>> \o documents
        /\ timers' = Append(timers, [id |-> id, owner |-> h,
                                     doc |-> FindDoc(handlers[h].snap, id)])
        /\ toasts' = <<Toast("success", "Upload Started", "is being uploaded and processed...", 0)>>
        /\ lastOp' = Op("uploadDocument", {id}, <<>>)
  /\ handlers' = [handlers EXCEPT ![h].pc = "timer"]
  /\ nextRand' = nextRand + 1
  /\ validated' = <<>>
  /\ everProcessed' = Processed(documents')
  /\ created' = [created EXCEPT ![h] = @ + 1]
  /\ UNCHANGED <<now, nOps, nonStoreVars>>

\* uploadDocument when the checksum or the file read rejects: the catch shows
\* 'Upload Failed' and uploadDocument returns; the loop goes on.
UploadReadFailed(h) ==
  /\ handlers[h].pc = "hash"
  /\ LET r == RunLoop(handlers[h].snap, Tail(handlers[h].queue),
                      handlers[h].successCount + 1,
                      <<Toast("error", "Upload Failed",
                              "An error occurred while uploading the file", 0)>>, <<>>)
     IN /\ handlers' = [handlers EXCEPT ![h] = r.handler]
        /\ toasts' = r.toasts
        /\ validated' = r.validated
  /\ lastOp' = Op("uploadDocument failed", {}, <<>>)
  /\ UNCHANGED <<documents, now, nextRand, timers, nOps, everProcessed, created, nonStoreVars>>

\* --------------------------------------------------------- processDocument
processedUpdate_NoTimestamp(t) == [status |-> "processed"]

processedUpdate(t) == [status |-> "processed", processedAt |-> Some(t)]

\* The timer of processDocument(docId) fires: the record of that id, if any, is
\* marked processed.  The catch branch (status 'error') is not reachable: nothing
\* in the try block throws.  When the call was awaited by uploadDocument inside
\* handleFileUpload, the loop resumes in the same task.
ProcessDocument(i) ==
  /\ i \in 1..Len(timers)
  /\ LET timer == timers[i]
         done == IF timer.doc # Undefined
                   THEN <<Toast("success", "Processing Complete",
                                "has been successfully processed and stored", 0)>>
                   ELSE <<>>
     IN /\ documents' = MapDocs(documents, timer.id, processedUpdate(now))
        /\ timers' = RemoveAt(timers, i)
        /\ everProcessed' = Processed(documents')
        /\ UNCHANGED created
        /\ lastOp' = Op("processDocument", {timer.id}, <<>>)
        /\ IF timer.owner \in Handlers
             THEN LET h == timer.owner
                      r == RunLoop(handlers[h].snap, Tail(handlers[h].queue),
                                   handlers[h].successCount + 1, done, <<>>)
                  IN /\ handlers' = [handlers EXCEPT ![h] = r.handler]
                     /\ toasts' = r.toasts
                     /\ validated' = r.validated
             ELSE /\ toasts' = done
                  /\ validated' = <<>>
                  /\ UNCHANGED handlers
  /\ UNCHANGED <<now, nextRand, nOps, nonStoreVars>>


\* ----------------------------------------------------- the other operations
\* deleteDocument(id), from the delete confirmation of the Documents page.
DeleteDocument(id) ==
  /\ nOps < MaxOps
  /\ nOps' = nOps + 1
  /\ IF FindDoc(documents, id) = Undefined
       THEN /\ toasts' = <<Toast("error", "Delete Failed", "Document not found", 0)>>
            /\ UNCHANGED documents
       ELSE /\ documents' = deleteFilter(documents, id)
            /\ toasts' = <<Toast("success", "Document Deleted",
                                 "has been permanently removed", 0)>>
  /\ lastOp' = Op("deleteDocument", {id},
                  SelectSeq(documents, LAMBDA doc : doc \notin Range(documents')))
  /\ validated' = <<>>
  /\ UNCHANGED <<now, nextRand, handlers, timers, everProcessed, created, nonStoreVars>>

\* bulkDeleteDocuments(ids), with the selection of the Documents page; the
\* selection may hold ids of records that are gone.
BulkDeleteDocuments(ids) ==
  /\ nOps < MaxOps
  /\ nOps' = nOps + 1
  /\ LET documentsToDelete == SelectSeq(documents, LAMBDA doc : doc.id \in ids)
     IN IF Len(documentsToDelete) = 0
          THEN /\ toasts' = <<Toast("warning", "No Documents",
                                    "No documents selected for deletion", 0)>>
               /\ UNCHANGED documents
          ELSE /\ documents' = bulkFilter(documents, ids)
               /\ toasts' = <<Toast("success", "Bulk Delete Complete",
                                    "document(s) have been deleted",
                                    Len(documentsToDelete))>>
  /\ lastOp' = Op("bulkDeleteDocuments", ids,
                  SelectSeq(documents, LAMBDA doc : doc \notin Range(documents')))
  /\ validated' = <<>>
  /\ UNCHANGED <<now, nextRand, handlers, timers, everProcessed, created, nonStoreVars>>

\* updateDocument(id, updates) as the pages call it: a rename (handleRename) or
\* a star toggle, { starred: !doc.starred }.
UpdateInputs(id) ==
  {[name |-> NReport]} \cup
  {[starred |-> ~documents[i].starred] : i \in {j \in 1..Len(documents) : documents[j].id = id}}

UpdateDocument(id, updates) ==
  /\ nOps < MaxOps
  /\ documents' = MapDocs(documents, id, updates)
  /\ nOps' = nOps + 1
  /\ toasts' = <<>>
  /\ lastOp' = Op("updateDocument", {id}, <<>>)
  /\ validated' = <<>>
  /\ everProcessed' = Processed(documents')
  /\ UNCHANGED created
  /\ UNCHANGED <<now, nextRand, handlers, timers, nonStoreVars>>

\* retryProcessing(id): no test of the record's status; the record goes back to
\* 'processing' and a new processDocument timer starts.  The closure of the
\* call holds the record, so processDocument will find it for its toast.
RetryProcessing(id) ==
  /\ nOps < MaxOps
  /\ IF FindDoc(documents, id) = Undefined
       THEN /\ toasts' = <<Toast("error", "Retry Failed", "Document not found", 0)>>
            /\ UNCHANGED <<documents, timers>>
       ELSE /\ documents' = MapDocs(documents, id,
                                    [status |-> "processing", errorMessage |-> Undefined])
            /\ toasts' = <<Toast("info", "Retry Started", "Retrying processing", 0)>>
            /\ timers' = Append(timers, [id |-> id, owner |-> 0,
                                         doc |-> FindDoc(documents, id)])
  /\ nOps' = nOps + 1
  /\ lastOp' = Op("retryProcessing", {id}, <<>>)
  /\ validated' = <<>>
  /\ everProcessed' = Processed(documents')
  /\ UNCHANGED created
  /\ UNCHANGED <<now, nextRand, handlers, nonStoreVars>>

\* cleanupRedundantData(): both passes work on a copy of the closure's
\* `documents`, which then replaces the state.
CleanupRedundantData ==
  /\ nOps < MaxOps
  /\ nOps' = nOps + 1
  /\ LET result == cleanupResult(documents, now)
     IN /\ documents' = result.docs
        /\ toasts' = IF result.count > 0
                       THEN <<Toast("success", "Cleanup Complete",
                                    "redundant document(s) removed", result.count)>>
                       ELSE <<Toast("info", "Cleanup Complete",
                                    "No redundant data found to clean up", 0)>>
  /\ lastOp' = Op("cleanupRedundantData", {},
                  SelectSeq(documents, LAMBDA doc : doc \notin Range(documents')))
  /\ validated' = <<>>
  /\ UNCHANGED <<now, nextRand, handlers, timers, everProcessed, created, nonStoreVars>>

\* The clock advances.
Tick ==
  /\ now < StartTime + MaxTicks
  /\ now' = now + 1
  /\ toasts' = <<>>
  /\ validated' = <<>>
  /\ lastOp' = Op("tick", {}, <<>>)
  /\ UNCHANGED <<documents, nextRand, handlers, timers, nOps, everProcessed, created, nonStoreVars>>

Next ==
  \/ \E h \in Handlers, files \in DropInputs : HandleFileUpload(h, files)
  \/ \E h \in Handlers : UploadStored(h)
  \/ \E h \in Handlers : UploadReadFailed(h)
  \/ \E i \in 1..Len(timers) : ProcessDocument(i)
  \/ \E id \in RepeatInputs : DeleteDocument(id)
  \/ \E ids \in SUBSET IdInputs : Cardinality(ids) \in {1, 2} /\ BulkDeleteDocuments(ids)
  \/ \E id \in IdInputs : \E updates \in UpdateInputs(id) : UpdateDocument(id, updates)
  \/ \E id \in IdInputs : RetryProcessing(id)
  \/ CleanupRedundantData
  \/ Tick

Spec == Init /\ [][Next]_vars

\* The browser runs every pending file read and every pending timer.
LiveSpec ==
  /\ Init
  /\ [][Next]_vars
  /\ WF_vars(\E h \in Handlers : UploadStored(h))
  /\ WF_vars(\E i \in 1..Len(timers) : ProcessDocument(i))


\* ------------------------------------------- cleanup of any collection
\* cleanupRedundantData as a function of the collection and the clock: the
\* collections of a store in which ingests have failed, which hold records in
\* 'error' of several ages next to records of the other statuses.
MaxDocs == 3

FailedDocument(id, name, uploadedAt) ==
  Document(id, name, "pdf", SmallSize, uploadedAt, "error", "policy", FALSE, 1,
           Undefined, Some("Processing failed - file may be corrupted"),
           Some(<<"base64", "c1">>), Some(<<"sha256", "c1">>))

\* An old failed record, one uploaded exactly seven days before the start, a
\* recent one, a processed record of the recent one's name and size uploaded
\* after it, and an old record still processing.
StoredRecords ==
  { FailedDocument(NewId(StartTime - 15, 1), NReport, StartTime - 15),
    FailedDocument(NewId(StartTime - sevenDays, 2), NSetup, StartTime - sevenDays),
    FailedDocument(NewId(StartTime - 1, 3), NPhoto, StartTime - 1),
    Document(NewId(StartTime, 4), NPhoto, "png", SmallSize, StartTime, "processed",
             "policy", FALSE, 1, Some(StartTime), Undefined,
             Some(<<"base64", "c2">>), Some(<<"sha256", "c2">>)),
    Document(NewId(StartTime - 15, 5), NDental, "docx", SmallSize, StartTime - 15,
             "processing", "policy", FALSE, 1, Undefined, Undefined,
             Some(<<"base64", "c3">>), Some(<<"sha256", "c3">>)) }

\* The collections of one to MaxDocs of these records, in any order.
StoredCollections ==
  UNION { { docs \in [1..n -> StoredRecords] :
              \A i, j \in 1..n : i # j => docs[i] # docs[j] } : n \in 1..MaxDocs }

InitCleanup ==
  /\ documents \in StoredCollections
  /\ now = StartTime
  /\ nextRand = 0
  /\ handlers = [h \in Handlers |-> IdleHandler]
  /\ timers = <<>>
  /\ toasts = <<>>
  /\ validated = <<>>
  /\ lastOp = Op("mount", {}, <<>>)
  /\ nOps = 0
  /\ everProcessed = {documents[i].id : i \in {j \in 1..Len(documents) :
                                                documents[j].status = "processed"}}
  /\ created = [h \in Handlers |-> 0]
  /\ isProcessing = FALSE
  /\ lastResult = Undefined
  /\ queryHistory = <<>>
  /\ pendingQueries = <<>>
  /\ user = Undefined
  /\ isLoading = FALSE
  /\ localStorage = EmptyStorage
  /\ pendingLogins = <<>>
  /\ authOp = AuthOp("mount", Undefined)
  /\ pendingStores = <<>>
  /\ fileOp = FileOp("none", "none", Undefined, Undefined)
  /\ currentPage = 1
  /\ selectedFilter = "all"
  /\ selectedFiles = <<>>
  /\ boxStatus = "idle"
  /\ progress = 0
  /\ processedContent = <<>>
  /\ runs = <<>>
  /\ delivered = <<>>
  /\ boxOp = "mount"

NextCleanup ==
  \/ CleanupRedundantData
  \/ Tick

CleanupSpec == InitCleanup /\ [][NextCleanup]_vars

\* ======================================================= the first provider
\* The first DocumentProvider of DocumentContext.tsx (lines 77-117), driven by
\* the Documents page kept in Login.tsx, whose drop handler calls
\* uploadDocument for every file of the drop in one synchronous forEach.
\* Its records have six fields; its ids are Date.now().toString().
DocumentV1(id, name, type, size, uploadedAt, status) ==
  [id |-> id, name |-> name, type |-> type, size |-> size,
   uploadedAt |-> uploadedAt, status |-> status]

sampleDocumentsV1 ==
  << DocumentV1("1", <<"Health Insurance Policy v2", "1", "pdf">>, "pdf", 2456789, 5, "processed"),
     DocumentV1("2", <<"Dental Coverage Guidelines", "docx">>, "doc", 1234567, 4, "processed"),
     DocumentV1("3", <<"Pre-existing Conditions List", "pdf">>, "pdf", 987654, 3, "processed"),
     DocumentV1("4", <<"Geographic Coverage Map", "jpg">>, "image", 3456789, 2, "processed"),
     DocumentV1("5", <<"Claims Processing Workflow", "pdf">>, "pdf", 1876543, 1, "processing") >>

\* file.name.split('.').pop()?.toLowerCase() || 'unknown'
TypeV1(name) == IF Extension(name) = "" THEN "unknown" ELSE Extension(name)

newDocumentV1(file, t) ==
  DocumentV1(ToString(t), file.name, TypeV1(file.name), file.size, t, "processing")

\* Array.from(files).forEach(file => uploadDocument(file)): every call reads
\* the clock of the same task, prepends its record and starts its timer.
RECURSIVE uploadAllV1(_, _, _)
uploadAllV1(files, state, t) ==
  IF files = <<>> THEN state
  ELSE uploadAllV1(Tail(files),
                   [docs |-> <<newDocumentV1(Head(files), t)>> \o state.docs,
                    timers |-> Append(state.timers, [id |-> ToString(t)])],
                   t)

DropInputsV1 ==
  {<<f>> : f \in ValidFiles} \cup {<<f, g>> : f \in ValidFiles, g \in ValidFiles}

InitV1 ==
  /\ documents = sampleDocumentsV1
  /\ now = StartTime
  /\ nextRand = 0
  /\ handlers = [h \in Handlers |-> IdleHandler]
  /\ timers = <<>>
  /\ toasts = <<>>
  /\ validated = <<>>
  /\ lastOp = Op("mount", {}, <<>>)
  /\ nOps = 0
  /\ everProcessed = {}
  /\ created = [h \in Handlers |-> 0]
  /\ isProcessing = FALSE
  /\ lastResult = Undefined
  /\ queryHistory = <<>>
  /\ pendingQueries = <<>>
  /\ user = Undefined
  /\ isLoading = FALSE
  /\ localStorage = EmptyStorage
  /\ pendingLogins = <<>>
  /\ authOp = AuthOp("mount", Undefined)
  /\ pendingStores = <<>>
  /\ fileOp = FileOp("none", "none", Undefined, Undefined)
  /\ currentPage = 1
  /\ selectedFilter = "all"
  /\ selectedFiles = <<>>
  /\ boxStatus = "idle"
  /\ progress = 0
  /\ processedContent = <<>>
  /\ runs = <<>>
  /\ delivered = <<>>
  /\ boxOp = "mount"

\* handleDrop / handleFileInput of the page in Login.tsx
HandleDropV1(files) ==
  /\ nOps < MaxOps
  /\ nOps' = nOps + 1
  /\ LET state == uploadAllV1(files, [docs |-> documents, timers |-> timers], now)
     IN /\ documents' = state.docs
        /\ timers' = state.timers
  /\ lastOp' = Op("uploadDocument", {ToString(now)}, <<>>)
  /\ toasts' = <<>>
  /\ validated' = <<>>
  /\ UNCHANGED <<now, nextRand, handlers, everProcessed, created, nonStoreVars>>

\* The 3000 ms timer of uploadDocument fires.
UploadTimerV1(i) ==
  /\ i \in 1..Len(timers)
  /\ documents' = MapDocs(documents, timers[i].id, [status |-> "processed"])
  /\ timers' = RemoveAt(timers, i)
  /\ lastOp' = Op("processDocument", {timers[i].id}, <<>>)
  /\ toasts' = <<>>
  /\ validated' = <<>>
  /\ UNCHANGED <<now, nextRand, handlers, nOps, everProcessed, created, nonStoreVars>>

DeleteDocumentV1(id) ==
  /\ nOps < MaxOps
  /\ nOps' = nOps + 1
  /\ documents' = deleteFilter(documents, id)
  /\ lastOp' = Op("deleteDocument", {id},
                  SelectSeq(documents, LAMBDA doc : doc \notin Range(documents')))
  /\ toasts' = <<>>
  /\ validated' = <<>>
  /\ UNCHANGED <<now, nextRand, handlers, timers, everProcessed, created, nonStoreVars>>

NextV1 ==
  \/ \E files \in DropInputsV1 : HandleDropV1(files)
  \/ \E i \in 1..Len(timers) : UploadTimerV1(i)
  \/ \E id \in Ids(documents) : DeleteDocumentV1(id)
  \/ Tick

SpecV1 == InitV1 /\ [][NextV1]_vars


\* ============================================================== query engine
\* QueryProvider (App.tsx).  A query is the sequence of its characters.
UpperCase ==
  <<"A", "B", "C", "D", "E", "F", "G", "H", "I", "J", "K", "L", "M",
    "N", "O", "P", "Q", "R", "S", "T", "U", "V", "W", "X", "Y", "Z">>
LowerCase ==
  <<"a", "b", "c", "d", "e", "f", "g", "h", "i", "j", "k", "l", "m",
    "n", "o", "p", "q", "r", "s", "t", "u", "v", "w", "x", "y", "z">>

\* String.prototype.toLowerCase, on the characters a query is typed with.
LowerOf ==
  [c \in Range(UpperCase) |->
     LowerCase[CHOOSE i \in 1..Len(UpperCase) : UpperCase[i] = c]]
toLowerCaseChar(c) == IF c \in DOMAIN LowerOf THEN LowerOf[c] ELSE c
QueryToLowerCase(query) == [i \in 1..Len(query) |-> toLowerCaseChar(query[i])]

\* String.prototype.includes
Includes(s, sub) ==
  \E i \in 1..(Len(s) - Len(sub) + 1) : SubSeq(s, i, i + Len(sub) - 1) = sub

\* The characters of a string, as the string: a template literal's text.
RECURSIVE Join(_)
Join(cs) == IF cs = <<>> THEN "" ELSE Head(cs) \o Join(Tail(cs))

\* The texts the code looks for.
TPreExisting == <<"p", "r", "e", "-", "e", "x", "i", "s", "t", "i", "n", "g">>
THeartSurgery == <<"h", "e", "a", "r", "t", " ", "s", "u", "r", "g", "e", "r", "y">>
TKneeSurgery == <<"k", "n", "e", "e", " ", "s", "u", "r", "g", "e", "r", "y">>
TDental == <<"d", "e", "n", "t", "a", "l">>
TEmergency == <<"e", "m", "e", "r", "g", "e", "n", "c", "y">>
TMale == <<"m", "a", "l", "e">>
TMComma == <<"m", ",">>
TMSpace == <<"m", " ">>
TFemale == <<"f", "e", "m", "a", "l", "e">>
TFComma == <<"f", ",">>
TFSpace == <<"f", " ">>
TPune == <<"p", "u", "n", "e">>
TMumbai == <<"m", "u", "m", "b", "a", "i">>
TYear == <<"y", "e", "a", "r">>
TY == <<"y">>
TYr == <<"y", "r">>
TMonth == <<"m", "o", "n", "t", "h">>

Digits == {"0", "1", "2", "3", "4", "5", "6", "7", "8", "9"}
Whitespace == {" ", "\t", "\n"}

\* query.match with the capture cut to the last digit of the run.
RegexMatch_LastDigit(query, words) ==
  LET n == Len(query)
      WordAt(p) == \E w \in words :
                     /\ p + Len(w) - 1 <= n
                     /\ \A j \in 1..Len(w) : toLowerCaseChar(query[p + j - 1]) = w[j]
      starts == {i \in 1..n :
                   /\ query[i] \in Digits
                   /\ \/ (i + 1 <= n /\ query[i + 1] \in {"-"} \cup Whitespace /\ WordAt(i + 2))
                      \/ WordAt(i + 1)}
  IN IF starts = {}
       THEN Undefined
       ELSE Some(<<query[CHOOSE s \in starts : \A o \in starts : s <= o]>>)

\* query.match(/(\d+)[-\s]?(w1|w2|...)/i): the first capture group of the
\* leftmost match, the digits taken greedily; no match is null.
RegexMatch(query, words) ==
  LET n == Len(query)
      WordAt(p) == \E w \in words :
                     /\ p + Len(w) - 1 <= n
                     /\ \A j \in 1..Len(w) : toLowerCaseChar(query[p + j - 1]) = w[j]
      MatchAt(i, k) ==
        /\ \A j \in i..(i + k - 1) : query[j] \in Digits
        /\ \/ (i + k <= n /\ query[i + k] \in {"-"} \cup Whitespace /\ WordAt(i + k + 1))
           \/ WordAt(i + k)
      starts == {i \in 1..n : query[i] \in Digits /\ \E k \in 1..(n - i + 1) : MatchAt(i, k)}
  IN IF starts = {}
       THEN Undefined
       ELSE LET i == CHOOSE s \in starts : \A o \in starts : s <= o
                ks == {k \in 1..(n - i + 1) : MatchAt(i, k)}
                k == CHOOSE l \in ks : \A o \in ks : o <= l
            IN Some(SubSeq(query, i, i + k - 1))

ageMatch(query) == RegexMatch(query, {TYear, TY, TYr})
policyMatch(query) == RegexMatch(query, {TMonth})

Info(type, value) == [type |-> type, value |-> value]

\* The extraction block of simulateQueryProcessing, in its order.
extractedInfo(query) ==
  LET lowerQuery == QueryToLowerCase(query)
      age == IF ageMatch(query) # Undefined
               THEN <<Info("Age", Join(ageMatch(query)[1]) \o " years")>>
               ELSE <<>>
      gender ==
        IF Includes(lowerQuery, TMale) \/ Includes(lowerQuery, TMComma)
             \/ Includes(lowerQuery, TMSpace)
          THEN <<Info("Gender", "Male")>>
        ELSE IF Includes(lowerQuery, TFemale) \/ Includes(lowerQuery, TFComma)
                  \/ Includes(lowerQuery, TFSpace)
          THEN <<Info("Gender", "Female")>>
        ELSE <<>>
      procedure ==
        IF Includes(lowerQuery, TKneeSurgery) THEN <<Info("Procedure", "Knee Surgery")>>
        ELSE IF Includes(lowerQuery, TDental) THEN <<Info("Procedure", "Dental Treatment")>>
        ELSE IF Includes(lowerQuery, THeartSurgery) THEN <<Info("Procedure", "Heart Surgery")>>
        ELSE IF Includes(lowerQuery, TEmergency) THEN <<Info("Procedure", "Emergency Care")>>
        ELSE <<>>
      location ==
        IF Includes(lowerQuery, TPune) THEN <<Info("Location", "Pune, India")>>
        ELSE IF Includes(lowerQuery, TMumbai) THEN <<Info("Location", "Mumbai, India")>>
        ELSE <<>>
      policy == IF policyMatch(query) # Undefined
                  THEN <<Info("Policy Age", Join(policyMatch(query)[1]) \o " months")>>
                  ELSE <<>>
  IN age \o gender \o procedure \o location \o policy

\* Math.random() yields a fraction in [0, 1): num / den.
RandomDraws == {[num |-> 0, den |-> 2], [num |-> 9, den |-> 10]}

\* Math.floor(Math.random() * n)
FloorRandom(r, n) == (r.num * n) \div r.den

Decision(decision, confidence, amount) ==
  [decision |-> decision, confidence |-> confidence, amount |-> amount]

determineDecision_KneeSurgeryFirst(lowerQuery, rc, ra) ==
  IF Includes(lowerQuery, TKneeSurgery) THEN Decision("approved", 94, "$12,500")
  ELSE IF Includes(lowerQuery, TPreExisting) \/ Includes(lowerQuery, THeartSurgery)
    THEN Decision("rejected", 96, "$0")
  ELSE Decision("approved", 85, "")

determineDecision_DentalFirst(lowerQuery, rc, ra) ==
  IF Includes(lowerQuery, TPreExisting) \/ Includes(lowerQuery, THeartSurgery)
    THEN Decision("rejected", 96, "$0")
  ELSE IF Includes(lowerQuery, TDental) THEN Decision("approved", 89, "$2,800")
  ELSE IF Includes(lowerQuery, TKneeSurgery) THEN Decision("approved", 94, "$12,500")
  ELSE IF Includes(lowerQuery, TEmergency) THEN Decision("approved", 92, "$8,750")
  ELSE Decision("approved", FloorRandom(rc, 20) + 75,
                "$" \o ToString(FloorRandom(ra, 10000) + 1000))

\* The decision block: rc and ra are the two Math.random() results of its
\* last branch.
determineDecision(lowerQuery, rc, ra) ==
  IF Includes(lowerQuery, TPreExisting) \/ Includes(lowerQuery, THeartSurgery)
    THEN Decision("rejected", 96, "$0")
  ELSE IF Includes(lowerQuery, TKneeSurgery) THEN Decision("approved", 94, "$12,500")
  ELSE IF Includes(lowerQuery, TDental) THEN Decision("approved", 89, "$2,800")
  ELSE IF Includes(lowerQuery, TEmergency) THEN Decision("approved", 92, "$8,750")
  ELSE Decision("approved", FloorRandom(rc, 20) + 75,
                "$" \o ToString(FloorRandom(ra, 10000) + 1000))

justification(decision, confidence) ==
  << [text |-> IF decision = "approved"
                 THEN "Patient meets eligibility criteria for the requested procedure under the current policy terms."
                 ELSE "Pre-existing conditions are excluded from coverage under Section 4.2 of the policy agreement.",
      source |-> "Policy Document v2.1 - Section 4.2",
      confidence |-> confidence],
     [text |-> IF decision = "approved"
                 THEN "Geographic coverage includes the specified treatment location and approved medical facilities."
                 ELSE "Waiting period requirements not met for high-risk procedures.",
      source |-> "Coverage Guidelines - Geographic Restrictions",
      confidence |-> confidence - 5] >>

\* `${(Math.random() * 3 + 1).toFixed(1)}s`: the value in tenths, rounded.
processingTime(rt) ==
  LET tenths == (2 * (30 * rt.num + 10 * rt.den) + rt.den) \div (2 * rt.den)
  IN ToString(tenths \div 10) \o "." \o ToString(tenths % 10) \o "s"

\* new Date().toISOString(), abbreviated to the instant it writes.
toISOString(t) == "T" \o ToString(t)

\* The sample queries of the Query Processor page.
sampleQueries ==
  <<
    <<"4", "6", "-", "y", "e", "a", "r", "-", "o", "l", "d", " ", "m", "a",
      "l", "e", ",", " ", "k", "n", "e", "e", " ", "s", "u", "r", "g", "e",
      "r", "y", " ", "i", "n", " ", "P", "u", "n", "e", ",", " ", "3", "-",
      "m", "o", "n", "t", "h", "-", "o", "l", "d", " ", "i", "n", "s", "u",
      "r", "a", "n", "c", "e", " ", "p", "o", "l", "i", "c", "y">>,
    <<"D", "e", "n", "t", "a", "l", " ", "c", "o", "v", "e", "r", "a", "g",
      "e", " ", "f", "o", "r", " ", "3", "2", "F", ",", " ", "p", "r", "e",
      "m", "i", "u", "m", " ", "p", "o", "l", "i", "c", "y", " ", "h", "o",
      "l", "d", "e", "r">>,
    <<"E", "m", "e", "r", "g", "e", "n", "c", "y", " ", "r", "o", "o", "m",
      " ", "v", "i", "s", "i", "t", " ", "i", "n", " ", "M", "u", "m", "b",
      "a", "i", ",", " ", "b", "a", "s", "i", "c", " ", "c", "o", "v", "e",
      "r", "a", "g", "e">>,
    <<"P", "r", "e", "-", "e", "x", "i", "s", "t", "i", "n", "g", " ", "c",
      "o", "n", "d", "i", "t", "i", "o", "n", ",", " ", "h", "e", "a", "r",
      "t", " ", "s", "u", "r", "g", "e", "r", "y", " ", "a", "p", "p", "r",
      "o", "v", "a", "l">> >>

\* Queries typed by hand.
QPreExistingKnee ==
  <<"p", "r", "e", "-", "e", "x", "i", "s", "t", "i", "n", "g", " ", "i",
    "n", "j", "u", "r", "y", ",", " ", "k", "n", "e", "e", " ", "s", "u",
    "r", "g", "e", "r", "y">>
QPreExistingDental ==
  <<"P", "R", "E", "-", "E", "X", "I", "S", "T", "I", "N", "G", " ", "c",
    "o", "n", "d", "i", "t", "i", "o", "n", ",", " ", "d", "e", "n", "t",
    "a", "l", " ", "e", "m", "e", "r", "g", "e", "n", "c", "y">>
QCheckup ==
  <<"a", "n", "n", "u", "a", "l", " ", "c", "h", "e", "c", "k", "u", "p">>
QFemaleDental ==
  <<"2", "5", " ", "y", "e", "a", "r", " ", "o", "l", "d", " ", "f", "e",
    "m", "a", "l", "e", ",", " ", "d", "e", "n", "t", "a", "l">>

QKneeDental ==
  <<"k", "n", "e", "e", " ", "s", "u", "r", "g", "e", "r", "y", ",", " ",
    "d", "e", "n", "t", "a", "l", " ", "e", "m", "e", "r", "g", "e", "n",
    "c", "y">>

Queries ==
  Range(sampleQueries)
    \cup {QPreExistingKnee, QPreExistingDental, QCheckup, QFemaleDental, QKneeDental}

\* What simulateQueryProcessing computes from the text alone, per query.
QueryFacts ==
  [query \in Queries |-> [lowerQuery |-> QueryToLowerCase(query),
                          extractedInfo |-> extractedInfo(query)]]

\* The decision block of simulateQueryProcessing, per query and pair of draws.
QueryDecisions ==
  [query \in Queries, rc \in RandomDraws, ra \in RandomDraws |->
     determineDecision(QueryFacts[query].lowerQuery, rc, ra)]

simulateQueryProcessing(query, t, rc, ra, rt) ==
  LET d == QueryDecisions[query, rc, ra]
  IN [id |-> ToString(t),
      query |-> query,
      decision |-> d.decision,
      amount |-> d.amount,
      confidence |-> d.confidence,
      processingTime |-> processingTime(rt),
      timestamp |-> toISOString(t),
      extractedInfo |-> QueryFacts[query].extractedInfo,
      justification |-> justification(d.decision, d.confidence)]

\* processQuery(query) up to its await: the flag is set and the delay starts.
Prepend_AtEnd(result, prev) == Append(prev, result)

\* setQueryHistory(prev => [result, ...prev])
Prepend(result, prev) == <<result>> \o prev

ProcessQuery(query) ==
  /\ Len(queryHistory) + Len(pendingQueries) < MaxQueries
  /\ isProcessing' = TRUE
  /\ pendingQueries' = Append(pendingQueries, query)
  /\ UNCHANGED <<lastResult, queryHistory, nonQueryVars>>

\* processQuery after its delay: the delays are random, so the pending calls
\* resume in any order.  rc, ra and rt are the Math.random() results used.
ProcessQueryResumed(i, rc, ra, rt) ==
  /\ i \in 1..Len(pendingQueries)
  /\ LET result == simulateQueryProcessing(pendingQueries[i], now, rc, ra, rt)
     IN /\ lastResult' = Some(result)
        /\ queryHistory' = Prepend(result, queryHistory)
  /\ isProcessing' = FALSE
  /\ pendingQueries' = RemoveAt(pendingQueries, i)
  /\ UNCHANGED nonQueryVars

QueryNext ==
  \/ \E query \in Queries : ProcessQuery(query)
  \/ \E i \in 1..Len(pendingQueries) : \E rc \in RandomDraws, ra \in RandomDraws, rt \in RandomDraws :
       ProcessQueryResumed(i, rc, ra, rt)
  \/ Tick

QuerySpec == Init /\ [][QueryNext]_vars


\* ============================================================ authentication
\* AuthProvider (AuthContext.tsx).
User(id, email, name, role, lastLogin) ==
  [id |-> id, email |-> email, name |-> name, role |-> role,
   avatar |-> Undefined, lastLogin |-> Some(lastLogin)]

\* The table is built when the module loads: lastLogin is that instant.
demoUsers ==
  [email \in {"admin@docintel.com", "analyst@docintel.com", "viewer@docintel.com"} |->
     CASE email = "admin@docintel.com" ->
            [password |-> "admin123",
             user |-> User("1", email, "John Doe", "admin", toISOString(StartTime))]
       [] email = "analyst@docintel.com" ->
            [password |-> "analyst123",
             user |-> User("2", email, "Sarah Wilson", "analyst", toISOString(StartTime))]
       [] email = "viewer@docintel.com" ->
            [password |-> "viewer123",
             user |-> User("3", email, "Mike Johnson", "viewer", toISOString(StartTime))]]

\* Names every object inherits from Object.prototype: demoUsers[name] is then
\* an object without a password field.
ObjectPrototypeKeys == {"constructor", "__proto__"}

\* demoUsers[key]: the entry, an inherited object, or undefined.
userRecordOf(key) ==
  IF key \in DOMAIN demoUsers
    THEN Some([password |-> Some(demoUsers[key].password), user |-> Some(demoUsers[key].user)])
  ELSE IF key \in ObjectPrototypeKeys
    THEN Some([password |-> Undefined, user |-> Undefined])
  ELSE Undefined

credentialsValid_EmailOnly(userRecord, password) == userRecord # Undefined

\* !(!userRecord || userRecord.password !== password)
credentialsValid(userRecord, password) ==
  userRecord # Undefined /\ userRecord[1].password = Some(password)

\* JSON.stringify and JSON.parse of a user; parse throws on any other text.
stringify(value) == <<"json", value>>
IsJson(text) == text[1] = "json"
parse(text) == text[2]

setItem(storage, key, text) == [storage EXCEPT ![key] = Some(text)]
removeItem(storage, key) == [storage EXCEPT ![key] = Undefined]
ClearedStorage_RememberOnly(storage) == removeItem(storage, "docintel_remember")

ClearedStorage(storage) ==
  removeItem(removeItem(storage, "docintel_user"), "docintel_remember")

\* checkStoredAuth, the effect run at mount: the user and the storage after it.
checkStoredAuth(storage) ==
  LET storedUser == storage["docintel_user"]
      rememberMe == storage["docintel_remember"]
  IN IF storedUser # Undefined /\ rememberMe = Some(<<"text", "true">>)
       THEN IF IsJson(storedUser[1])
              THEN [user |-> Some(parse(storedUser[1])), storage |-> storage]
              ELSE [user |-> Undefined, storage |-> ClearedStorage(storage)]
       ELSE [user |-> Undefined, storage |-> storage]

\* What an earlier session of the application can have left in the storage:
\* nothing, a remembered user, or a remembered user whose text is damaged.
StoredSessions ==
  { EmptyStorage,
    setItem(setItem(EmptyStorage, "docintel_user",
                    stringify(User("2", "analyst@docintel.com", "Sarah Wilson", "analyst",
                                   toISOString(0)))),
            "docintel_remember", <<"text", "true">>),
    setItem(setItem(EmptyStorage, "docintel_user", <<"text", "{\"id\":">>),
            "docintel_remember", <<"text", "true">>) }

InitAuth ==
  /\ documents = sampleDocuments
  /\ now = StartTime
  /\ nextRand = 0
  /\ handlers = [h \in Handlers |-> IdleHandler]
  /\ timers = <<>>
  /\ toasts = <<>>
  /\ validated = <<>>
  /\ lastOp = Op("mount", {}, <<>>)
  /\ nOps = 0
  /\ everProcessed = {}
  /\ created = [h \in Handlers |-> 0]
  /\ isProcessing = FALSE
  /\ lastResult = Undefined
  /\ queryHistory = <<>>
  /\ pendingQueries = <<>>
  /\ \E stored \in StoredSessions :
       /\ user = checkStoredAuth(stored).user
       /\ localStorage = checkStoredAuth(stored).storage
  /\ isLoading = FALSE
  /\ pendingLogins = <<>>
  /\ authOp = AuthOp("mount", Undefined)
  /\ pendingStores = <<>>
  /\ fileOp = FileOp("none", "none", Undefined, Undefined)
  /\ currentPage = 1
  /\ selectedFilter = "all"
  /\ selectedFiles = <<>>
  /\ boxStatus = "idle"
  /\ progress = 0
  /\ processedContent = <<>>
  /\ runs = <<>>
  /\ delivered = <<>>
  /\ boxOp = "mount"

\* What the operations of AuthProvider leave alone, the budget aside.
authFrame ==
  <<documents, now, nextRand, handlers, timers, toasts, validated, lastOp,
    everProcessed, created, queryVars, fileVars, uiVars>>

Emails ==
  {"admin@docintel.com", "Admin@DocIntel.com", "viewer@docintel.com",
   "nobody@docintel.com", "constructor"}
Passwords == {"admin123", "viewer123"}

\* login(email, password, rememberMe) up to its await.
Login(email, password, rememberMe) ==
  /\ nOps < MaxOps
  /\ nOps' = nOps + 1
  /\ isLoading' = TRUE
  /\ pendingLogins' = Append(pendingLogins, [email |-> email, password |-> password,
                                             rememberMe |-> rememberMe])
  /\ authOp' = AuthOp("login", Undefined)
  /\ UNCHANGED <<user, localStorage, authFrame>>

\* login after its 1500 ms delay: the try block and the finally.
LoginSettled(i) ==
  /\ i \in 1..Len(pendingLogins)
  /\ LET call == pendingLogins[i]
         userRecord == userRecordOf(ToLowerCase(call.email))
     IN IF ~credentialsValid(userRecord, call.password)
          THEN /\ authOp' = AuthOp("login settled", Some("Invalid credentials"))
               /\ UNCHANGED <<user, localStorage>>
          ELSE LET authenticatedUser ==
                     [userRecord[1].user[1] EXCEPT !.lastLogin = Some(toISOString(now))]
               IN /\ user' = Some(authenticatedUser)
                  /\ localStorage' =
                       IF call.rememberMe
                         THEN setItem(setItem(localStorage, "docintel_user",
                                              stringify(authenticatedUser)),
                                      "docintel_remember", <<"text", "true">>)
                         ELSE ClearedStorage(localStorage)
                  /\ authOp' = AuthOp("login settled", Undefined)
  /\ isLoading' = FALSE
  /\ pendingLogins' = RemoveAt(pendingLogins, i)
  /\ UNCHANGED <<nOps, authFrame>>

Logout ==
  /\ nOps < MaxOps
  /\ nOps' = nOps + 1
  /\ user' = Undefined
  /\ localStorage' = ClearedStorage(localStorage)
  /\ authOp' = AuthOp("logout", Undefined)
  /\ UNCHANGED <<isLoading, pendingLogins, authFrame>>

UserUpdates == {[name |-> "J. Doe"], [role |-> "viewer"]}

\* updateUser(updates), called from the latest render.
UpdateUser(updates) ==
  /\ nOps < MaxOps
  /\ nOps' = nOps + 1
  /\ IF user # Undefined
       THEN LET updatedUser == Merge(user[1], updates)
            IN /\ user' = Some(updatedUser)
               /\ localStorage' =
                    IF localStorage["docintel_remember"] = Some(<<"text", "true">>)
                      THEN setItem(localStorage, "docintel_user", stringify(updatedUser))
                      ELSE localStorage
       ELSE UNCHANGED <<user, localStorage>>
  /\ authOp' = AuthOp("updateUser", Undefined)
  /\ UNCHANGED <<isLoading, pendingLogins, authFrame>>

\* The clock advances while AuthProvider is shown.
AuthTick ==
  /\ now < StartTime + MaxTicks
  /\ now' = now + 1
  /\ UNCHANGED <<documents, nextRand, handlers, timers, toasts, validated, lastOp,
                 nOps, everProcessed, created, queryVars, authVars, fileVars, uiVars>>

NextAuth ==
  \/ \E email \in Emails, password \in Passwords, rememberMe \in BOOLEAN :
       Login(email, password, rememberMe)
  \/ \E i \in 1..Len(pendingLogins) : LoginSettled(i)
  \/ Logout
  \/ \E updates \in UserUpdates : UpdateUser(updates)
  \/ AuthTick

AuthSpec == InitAuth /\ [][NextAuth]_vars

\* ====================================================== file storage manager
\* FileStorageManager of the Settings page: the stored files are the list
\* kept as JSON text under one key of window.localStorage.
storageKey == "docintel_files"

StoredFile(id, name, type, size, data, checksum, uploadedAt) ==
  [id |-> id, name |-> name, type |-> type, size |-> size, data |-> data,
   checksum |-> checksum, uploadedAt |-> uploadedAt]

\* 30 * 24 * 60 * 60 * 1000 ms, in ticks of one day.
thirtyDays == 30

\* new Date(text): the instant of a text that toISOString wrote.
Instants == (StartTime - 2 * thirtyDays)..(StartTime + MaxTicks + 2)
DateOf(text) == CHOOSE t \in Instants : toISOString(t) = text

\* getAllFiles: the parsed list, [] when the key is absent or its text does
\* not parse.
getAllFiles(storage) ==
  LET stored == storage[storageKey]
  IN IF stored # Undefined /\ IsJson(stored[1]) THEN parse(stored[1]) ELSE <<>>

\* files.filter(keep), in order.
FilterFiles(files, keep(_)) == SelectSeq(files, keep)

\* localStorage.setItem(storageKey, JSON.stringify(files)) inside the try
\* block of an operation: when the browser refuses the write the call throws
\* and control passes to the catch block, whose outcome is `caught`; when it
\* returns, the storage holds the new text and the outcome is `returned`.
TryWrite(storage, files, writeThrows, returned, caught) ==
  IF writeThrows
    THEN [storage |-> storage, op |-> caught]
    ELSE [storage |-> setItem(storage, storageKey, stringify(files)),
          op |-> returned]

\* storeFile after its reads: a rejected read and a refused write both end in
\* the catch block, which throws the same error.
storeFile(storage, file, id, t, readFails, writeThrows) ==
  IF readFails
    THEN [storage |-> storage,
          op |-> FileOp("storeFile", "none", Some("Failed to store file"), Undefined)]
    ELSE LET storedFile == StoredFile(id, file.name, file.type, file.size,
                                      fileToBase64(file), generateChecksum(file),
                                      toISOString(t))
             existingFiles == Append(getAllFiles(storage), storedFile)
         IN TryWrite(storage, existingFiles, writeThrows,
                     FileOp("storeFile", "ok", Undefined, Some(storedFile)),
                     FileOp("storeFile", "threw", Some("Failed to store file"),
                            Undefined))

deleteFile(storage, id, writeThrows) ==
  LET files == getAllFiles(storage)
      NotId(file) == file.id # id
      filteredFiles == FilterFiles(files, NotId)
  IN IF Len(filteredFiles) = Len(files)
       THEN [storage |-> storage,
             op |-> FileOp("deleteFile", "none", Undefined, Some(FALSE))]
       ELSE TryWrite(storage, filteredFiles, writeThrows,
                     FileOp("deleteFile", "ok", Undefined, Some(TRUE)),
                     FileOp("deleteFile", "threw", Undefined, Some(FALSE)))

deleteFiles(storage, ids, writeThrows) ==
  LET files == getAllFiles(storage)
      NotIn(file) == file.id \notin ids
      filteredFiles == FilterFiles(files, NotIn)
      deletedCount == Len(files) - Len(filteredFiles)
  IN TryWrite(storage, filteredFiles, writeThrows,
              FileOp("deleteFiles", "ok", Undefined, Some(deletedCount)),
              FileOp("deleteFiles", "threw", Undefined, Some(0)))

updateFile(storage, id, updates, writeThrows) ==
  LET files == getAllFiles(storage)
  IN IF \A i \in 1..Len(files) : files[i].id # id
       THEN [storage |-> storage,
             op |-> FileOp("updateFile", "none", Undefined, Some(FALSE))]
       ELSE LET fileIndex == CHOOSE i \in 1..Len(files) :
                               /\ files[i].id = id
                               /\ \A j \in 1..(i - 1) : files[j].id # id
            IN TryWrite(storage,
                        [files EXCEPT ![fileIndex] = Merge(files[fileIndex], updates)],
                        writeThrows,
                        FileOp("updateFile", "ok", Undefined, Some(TRUE)),
                        FileOp("updateFile", "threw", Undefined, Some(FALSE)))

\* The files cleanup removes: older than thirty days, or without data or
\* checksum.
Removable(file, t) ==
  \/ DateOf(file.uploadedAt) < t - thirtyDays
  \/ file.data = Undefined
  \/ file.checksum = Undefined

CleanupCounts(removedFiles, freedSpace) ==
  [removedFiles |-> removedFiles, freedSpace |-> freedSpace]

cleanup_CountsKept(storage, t, writeThrows) ==
  LET files == getAllFiles(storage)
      Valid(file) == ~Removable(file, t)
      Gone(file) == Removable(file, t)
      AddSize(acc, file) == acc + file.size
      counts == CleanupCounts(Len(FilterFiles(files, Gone)),
                              Reduce(AddSize, FilterFiles(files, Gone), 0))
  IN TryWrite(storage, FilterFiles(files, Valid), writeThrows,
              FileOp("cleanup", "ok", Undefined, Some(counts)),
              FileOp("cleanup", "threw", Undefined, Some(counts)))

cleanup(storage, t, writeThrows) ==
  LET files == getAllFiles(storage)
      Valid(file) == ~Removable(file, t)
      Gone(file) == Removable(file, t)
      AddSize(acc, file) == acc + file.size
      removedFiles == Len(FilterFiles(files, Gone))
      freedSpace == Reduce(AddSize, FilterFiles(files, Gone), 0)
  IN TryWrite(storage, FilterFiles(files, Valid), writeThrows,
              FileOp("cleanup", "ok", Undefined,
                     Some(CleanupCounts(removedFiles, freedSpace))),
              FileOp("cleanup", "threw", Undefined, Some(CleanupCounts(0, 0))))

\* What earlier sessions can have left under the key: nothing, a list with a
\* file older than thirty days, a file without data and a recent file, or a
\* text that does not parse.
OldFileId == NewId(StartTime - thirtyDays - 1, 1)
NoDataFileId == NewId(StartTime - 1, 2)
RecentFileId == NewId(StartTime - 1, 3)

StoredFileLists ==
  { EmptyStorage,
    setItem(EmptyStorage, storageKey,
            stringify(<<StoredFile(OldFileId, NReport, "application/pdf", SmallSize,
                                   Some(<<"base64", "c1">>), Some(<<"sha256", "c1">>),
                                   toISOString(StartTime - thirtyDays - 1)),
                        StoredFile(NoDataFileId, NPhoto, "image/png", SmallSize,
                                   Undefined, Some(<<"sha256", "c1">>),
                                   toISOString(StartTime - 1)),
                        StoredFile(RecentFileId, NReport, "application/pdf", SmallSize,
                                   Some(<<"base64", "c2">>), Some(<<"sha256", "c2">>),
                                   toISOString(StartTime - 1))>>)),
    setItem(EmptyStorage, storageKey, <<"text", "[{\"id\":">>) }

InitFiles ==
  /\ documents = sampleDocuments
  /\ now = StartTime
  /\ nextRand = 0
  /\ handlers = [h \in Handlers |-> IdleHandler]
  /\ timers = <<>>
  /\ toasts = <<>>
  /\ validated = <<>>
  /\ lastOp = Op("mount", {}, <<>>)
  /\ nOps = 0
  /\ everProcessed = {}
  /\ created = [h \in Handlers |-> 0]
  /\ isProcessing = FALSE
  /\ lastResult = Undefined
  /\ queryHistory = <<>>
  /\ pendingQueries = <<>>
  /\ user = Undefined
  /\ isLoading = FALSE
  /\ localStorage \in StoredFileLists
  /\ pendingLogins = <<>>
  /\ authOp = AuthOp("mount", Undefined)
  /\ pendingStores = <<>>
  /\ fileOp = FileOp("none", "none", Undefined, Undefined)
  /\ currentPage = 1
  /\ selectedFilter = "all"
  /\ selectedFiles = <<>>
  /\ boxStatus = "idle"
  /\ progress = 0
  /\ processedContent = <<>>
  /\ runs = <<>>
  /\ delivered = <<>>
  /\ boxOp = "mount"

\* What the operations of FileStorageManager leave alone, the budget, the
\* clock and the random suffixes aside.
fileFrame ==
  <<documents, handlers, timers, toasts, validated, lastOp, everProcessed, created,
    queryVars, user, isLoading, pendingLogins, authOp, uiVars>>

\* The ids a caller can name: those of the stored files and one of no file.
FileIdInputs(storage) == Ids(getAllFiles(storage)) \cup {UnknownId}

FileUpdates == { [name |-> NDental] }

\* storeFile up to its await: the two reads of the file are started.
StoreFile(file) ==
  /\ nOps < MaxOps
  /\ nOps' = nOps + 1
  /\ pendingStores' = Append(pendingStores, file)
  /\ UNCHANGED <<now, nextRand, localStorage, fileOp, fileFrame>>

\* storeFile after its await: the reads have settled.
StoreFileResumed(i, readFails, writeThrows) ==
  /\ i \in 1..Len(pendingStores)
  /\ LET result == storeFile(localStorage, pendingStores[i], NewId(now, nextRand),
                             now, readFails, writeThrows)
     IN /\ localStorage' = result.storage
        /\ fileOp' = result.op
  /\ nextRand' = IF readFails THEN nextRand ELSE nextRand + 1
  /\ pendingStores' = RemoveAt(pendingStores, i)
  /\ UNCHANGED <<now, nOps, fileFrame>>

DeleteFile(id, writeThrows) ==
  /\ nOps < MaxOps
  /\ nOps' = nOps + 1
  /\ LET result == deleteFile(localStorage, id, writeThrows)
     IN /\ localStorage' = result.storage
        /\ fileOp' = result.op
  /\ UNCHANGED <<now, nextRand, pendingStores, fileFrame>>

DeleteFiles(ids, writeThrows) ==
  /\ nOps < MaxOps
  /\ nOps' = nOps + 1
  /\ LET result == deleteFiles(localStorage, ids, writeThrows)
     IN /\ localStorage' = result.storage
        /\ fileOp' = result.op
  /\ UNCHANGED <<now, nextRand, pendingStores, fileFrame>>

UpdateFile(id, updates, writeThrows) ==
  /\ nOps < MaxOps
  /\ nOps' = nOps + 1
  /\ LET result == updateFile(localStorage, id, updates, writeThrows)
     IN /\ localStorage' = result.storage
        /\ fileOp' = result.op
  /\ UNCHANGED <<now, nextRand, pendingStores, fileFrame>>

Cleanup(writeThrows) ==
  /\ nOps < MaxOps
  /\ nOps' = nOps + 1
  /\ LET result == cleanup(localStorage, now, writeThrows)
     IN /\ localStorage' = result.storage
        /\ fileOp' = result.op
  /\ UNCHANGED <<now, nextRand, pendingStores, fileFrame>>

\* Time passes between two tasks.
FileTick ==
  /\ now < StartTime + MaxTicks
  /\ now' = now + 1
  /\ UNCHANGED <<nOps, nextRand, localStorage, pendingStores, fileOp, fileFrame>>

NextFiles ==
  \/ \E file \in ValidFiles : StoreFile(file)
  \/ \E i \in 1..Len(pendingStores), readFails \in BOOLEAN, writeThrows \in BOOLEAN :
       StoreFileResumed(i, readFails, writeThrows)
  \/ \E id \in FileIdInputs(localStorage), writeThrows \in BOOLEAN :
       DeleteFile(id, writeThrows)
  \/ \E ids \in SUBSET FileIdInputs(localStorage), writeThrows \in BOOLEAN :
       DeleteFiles(ids, writeThrows)
  \/ \E id \in FileIdInputs(localStorage), updates \in FileUpdates,
        writeThrows \in BOOLEAN :
       UpdateFile(id, updates, writeThrows)
  \/ \E writeThrows \in BOOLEAN : Cleanup(writeThrows)
  \/ FileTick

FileSpec == InitFiles /\ [][NextFiles]_vars

\* ============================================================ documents page
\* The list of the Documents page: filter, sort, pagination.  The search box
\* and the category filter are left at their initial values, which match every
\* record, and the sort at its initial field and order (date, latest first).
itemsPerPage == 12

Min(a, b) == IF a < b THEN a ELSE b
Max(a, b) == IF a > b THEN a ELSE b

FilterOptions == {"all", "pdf", "doc", "docx", "txt", "jpg", "png"}

filteredDocuments(docs, filter) ==
  SortLatestFirst(SelectSeq(docs, LAMBDA doc : filter = "all" \/ doc.type = filter))

\* Math.ceil(n / itemsPerPage)
totalPages(n) == (n + itemsPerPage - 1) \div itemsPerPage

startIndex(page) == (page - 1) * itemsPerPage

\* list.slice(startIndex, startIndex + itemsPerPage)
paginatedDocuments(list, page) ==
  SubSeq(list, startIndex(page) + 1, Min(startIndex(page) + itemsPerPage, Len(list)))

Filtered == filteredDocuments(documents, selectedFilter)
TotalPages == totalPages(Len(Filtered))

\* The collection of a store after ten ingests have completed, nine of them of
\* PDF files and one of an image, on top of the sample records.
IngestedFile(k) ==
  File(<<"scan", ToString(k), IF k = 1 THEN "png" ELSE "pdf">>,
       IF k = 1 THEN "image/png" ELSE "application/pdf", SmallSize, "c1")

PageDocuments ==
  [k \in 1..10 |->
     Merge(NewDocument(IngestedFile(11 - k), NewId(StartTime - k, 11 - k), StartTime - k),
           processedUpdate(StartTime - k))] \o sampleDocuments

InitPage ==
  /\ documents = PageDocuments
  /\ now = StartTime
  /\ nextRand = 0
  /\ handlers = [h \in Handlers |-> IdleHandler]
  /\ timers = <<>>
  /\ toasts = <<>>
  /\ validated = <<>>
  /\ lastOp = Op("mount", {}, <<>>)
  /\ nOps = 0
  /\ everProcessed = Ids(PageDocuments)
  /\ created = [h \in Handlers |-> 0]
  /\ isProcessing = FALSE
  /\ lastResult = Undefined
  /\ queryHistory = <<>>
  /\ pendingQueries = <<>>
  /\ user = Undefined
  /\ isLoading = FALSE
  /\ localStorage = EmptyStorage
  /\ pendingLogins = <<>>
  /\ authOp = AuthOp("mount", Undefined)
  /\ pendingStores = <<>>
  /\ fileOp = FileOp("none", "none", Undefined, Undefined)
  /\ currentPage = 1
  /\ selectedFilter = "all"
  /\ selectedFiles = <<>>
  /\ boxStatus = "idle"
  /\ progress = 0
  /\ processedContent = <<>>
  /\ runs = <<>>
  /\ delivered = <<>>
  /\ boxOp = "mount"

\* What the controls of the list leave alone.
pageFrame == <<storeVars, queryVars, authVars, fileVars, zoneVars, boxVars>>

\* The Previous button, shown with the other page controls while there is more
\* than one page, disabled on page 1.
PreviousPage ==
  /\ TotalPages > 1
  /\ currentPage # 1
  /\ currentPage' = Max(1, currentPage - 1)
  /\ UNCHANGED <<selectedFilter, pageFrame>>

\* The Next button, disabled on the last page.
NextPage ==
  /\ TotalPages > 1
  /\ currentPage # TotalPages
  /\ currentPage' = Min(TotalPages, currentPage + 1)
  /\ UNCHANGED <<selectedFilter, pageFrame>>

\* One of the up to five numbered buttons.
GoToPage(page) ==
  /\ TotalPages > 1
  /\ page \in 1..Min(5, TotalPages)
  /\ currentPage' = page
  /\ UNCHANGED <<selectedFilter, pageFrame>>

\* The type filter: onChange sets selectedFilter and nothing else.
SelectFilter(value) ==
  /\ selectedFilter' = value
  /\ UNCHANGED <<currentPage, pageFrame>>

\* handleDeleteDocument, handleBulkDelete and handleCleanup call the store and
\* set nothing of the list.
NextPageSpec ==
  \/ PreviousPage
  \/ NextPage
  \/ \E page \in 1..5 : GoToPage(page)
  \/ \E value \in FilterOptions : SelectFilter(value)
  \/ \E id \in IdInputs : DeleteDocument(id)
  \/ \E ids \in SUBSET IdInputs : Cardinality(ids) \in {1, 2} /\ BulkDeleteDocuments(ids)
  \/ CleanupRedundantData

PageSpec == InitPage /\ [][NextPageSpec]_vars

\* ============================================================ file upload zone
\* FileUploadZone with the default values of its props.
acceptedTypes == {"pdf", "doc", "docx", "txt", "jpg", "jpeg", "png", "gif"}
maxFileSize == 10 * 1024 * 1024
maxFiles == 10

ZoneErrSize == "File size exceeds 10MB limit"
ZoneErrType == "File type not supported"

\* validateFile of the zone: the size first, then the extension.  The result
\* is the message in a one-element tuple, or Undefined for null.
zoneValidateFile(file) ==
  IF file.size > maxFileSize THEN <<ZoneErrSize>>
  ELSE IF Extension(file.name) \notin acceptedTypes THEN <<ZoneErrType>>
  ELSE Undefined

\* An entry of the selection: the id `${Date.now()}-${index}` and the error.
FileWithPreview(t, index, error) == [id |-> <<t, index>>, error |-> error]

\* array.splice(start) with one argument: a negative start counts from the end
\* of the array, a start past the end is the end; what is left in the array is
\* its first start elements.
SpliceFrom(array, start) ==
  LET from == IF start < 0 THEN Max(Len(array) + start, 0) ELSE Min(start, Len(array))
  IN  SubSeq(array, 1, from)

processFiles(selected, files, t) ==
  LET entries == [i \in 1..Len(files) |-> FileWithPreview(t, i - 1, zoneValidateFile(files[i]))]
      validFiles == SelectSeq(entries, LAMBDA f : f.error = Undefined)
      invalidFiles == SelectSeq(entries, LAMBDA f : f.error # Undefined)
      totalFiles == Len(selected) + Len(validFiles)
      allowedCount == maxFiles - Len(selected)
      kept == IF totalFiles > maxFiles THEN SpliceFrom(validFiles, allowedCount) ELSE validFiles
  IN  selected \o kept \o invalidFiles

removeFile(selected, fileId) == SelectSeq(selected, LAMBDA f : f.id # fileId)

\* The files that handleUpload passes on.
ErrorFree(selected) == SelectSeq(selected, LAMBDA f : f.error = Undefined)

\* The batches dropped on the zone: some files that pass validateFile followed
\* by some that do not (one too large, then ones of a type not accepted).
MaxBatchValid == 10
MaxBatchInvalid == 2

ZoneBatch(nValid, nInvalid) ==
  [i \in 1..(nValid + nInvalid) |->
     IF i <= nValid THEN File(NReport, "application/pdf", SmallSize, "c1")
     ELSE IF i = nValid + 1 THEN File(NReport, "application/pdf", OverSize, "c1")
     ELSE File(NSetup, "application/x-msdownload", SmallSize, "c1")]

ZoneBatches ==
  {ZoneBatch(nValid, nInvalid) : nValid \in 0..MaxBatchValid, nInvalid \in 0..MaxBatchInvalid}
    \ {<<>>}

zoneFrame ==
  <<documents, now, nextRand, handlers, timers, toasts, validated, lastOp, everProcessed,
    created, queryVars, authVars, fileVars, pageVars, boxVars>>

\* handleDrop and handleFileInput, which call processFiles when there is a file.
ProcessFiles(files) ==
  /\ nOps < MaxOps
  /\ nOps' = nOps + 1
  /\ selectedFiles' = processFiles(selectedFiles, files, now)
  /\ UNCHANGED zoneFrame

\* The remove button of an entry.
RemoveFile(fileId) ==
  /\ nOps < MaxOps
  /\ nOps' = nOps + 1
  /\ selectedFiles' = removeFile(selectedFiles, fileId)
  /\ UNCHANGED zoneFrame

\* The Upload button, disabled while no entry is free of error: passes the
\* entries free of error to onFilesSelected and empties the selection.
HandleUpload ==
  /\ nOps < MaxOps
  /\ ErrorFree(selectedFiles) # <<>>
  /\ nOps' = nOps + 1
  /\ selectedFiles' = <<>>
  /\ UNCHANGED zoneFrame

\* The Clear All button, shown while the selection has an entry.
ClearAll ==
  /\ nOps < MaxOps
  /\ selectedFiles # <<>>
  /\ nOps' = nOps + 1
  /\ selectedFiles' = <<>>
  /\ UNCHANGED zoneFrame

NextZone ==
  \/ \E files \in ZoneBatches : ProcessFiles(files)
  \/ \E f \in Range(selectedFiles) : RemoveFile(f.id)
  \/ HandleUpload
  \/ ClearAll
  \/ Tick

ZoneSpec == Init /\ [][NextZone]_vars

\* ============================================================== processing box
\* ProcessingBox.  A text is the sequence of its characters; '' is <<>>.
\* runs holds the calls of processContent that are waiting in their loop: the
\* loop variable i and the content prop the call closed over.
UpperOf ==
  [c \in Range(LowerCase) |->
     UpperCase[CHOOSE i \in 1..Len(LowerCase) : LowerCase[i] = c]]
toUpperCaseChar(c) == IF c \in DOMAIN UpperOf THEN UpperOf[c] ELSE c
ToUpperCase(text) == [i \in 1..Len(text) |-> toUpperCaseChar(text[i])]

TProcessed == <<"P", "R", "O", "C", "E", "S", "S", "E", "D", ":", " ">>

\* `PROCESSED: ${content.toUpperCase()}`
ProcessedResult(content) == TProcessed \o ToUpperCase(content)

ProgressStep == 10
ProgressEnd == 100

\* The values of the content prop, and the number of processContent calls.
BoxContents == {<<"o", "k">>, <<"N", "o", " ", "2">>}
MaxRuns == 2

BoxRun(i, content) == [i |-> i, content |-> content]

boxFrame == <<storeVars, queryVars, authVars, fileVars, pageVars, zoneVars>>

\* The Process Content button, disabled while status is 'processing':
\* processContent up to its first await.
ProcessContent(content) ==
  /\ boxStatus # "processing"
  /\ Len(runs) + Len(delivered) < MaxRuns
  /\ boxStatus' = "processing"
  /\ progress' = 0
  /\ runs' = Append(runs, BoxRun(0, content))
  /\ boxOp' = "processContent"
  /\ UNCHANGED <<processedContent, delivered, boxFrame>>

\* The 200 ms delay of a waiting call ends: the next round of its loop, or,
\* after the round of i = 100, the rest of processContent.
ProcessContentResumed(r) ==
  LET run == runs[r]
      i == run.i + ProgressStep
      result == ProcessedResult(run.content)
  IN  /\ IF i <= ProgressEnd
        THEN /\ progress' = i
             /\ runs' = [runs EXCEPT ![r] = BoxRun(i, run.content)]
             /\ UNCHANGED <<boxStatus, processedContent, delivered>>
        ELSE /\ processedContent' = result
             /\ boxStatus' = "completed"
             /\ delivered' = Append(delivered, result)
             /\ runs' = RemoveAt(runs, r)
             /\ UNCHANGED progress
      /\ UNCHANGED <<boxOp, boxFrame>>

\* The Reset button, shown while status is not 'idle'.
Reset ==
  /\ boxStatus # "idle"
  /\ boxStatus' = "idle"
  /\ processedContent' = <<>>
  /\ progress' = 0
  /\ boxOp' = "reset"
  /\ UNCHANGED <<runs, delivered, boxFrame>>

NextBox ==
  \/ \E content \in BoxContents : ProcessContent(content)
  \/ \E r \in 1..Len(runs) : ProcessContentResumed(r)
  \/ Reset

BoxSpec == Init /\ [][NextBox]_vars


\* ============================================================ document store
\* The statistics of the current render, `const stats = calculateStats(documents)`.
stats == calculateStats(documents)


TypeAllowed(file) == file.type \in FILE_VALIDATION.allowedTypes
ExtensionAllowed(file) ==
  ToLowerCase(file.name[Len(file.name)]) \in FILE_VALIDATION.allowedExtensions
TooLarge(file) == file.size > 10 * 1024 * 1024

\* The files some handler is storing (validation passed) or waiting to see processed.
InUpload == {Head(handlers[h].queue) : h \in {g \in Handlers : handlers[g].pc \in {"hash", "timer"}}}

\* C1: a file over 10 MiB is rejected by validateFile with the size message,
\* whatever its type, extension and name, and uploadDocument neither stores a
\* record for it nor starts a processing timer: no upload of such a file is ever
\* in progress and no record of that size is in the collection.
C1_OversizeRejected ==
  /\ \A k \in 1..Len(validated) :
       TooLarge(validated[k].file) =>
         validated[k].result = [isValid |-> FALSE, error |-> ErrSize]
  /\ \A file \in InUpload : ~TooLarge(file)
  /\ \A i \in 1..Len(documents) : documents[i].size <= 10 * 1024 * 1024
  /\ (lastOp.op = "handleFileUpload" /\ \A k \in 1..Len(validated) : TooLarge(validated[k].file))
       => /\ \A h \in Handlers : handlers[h].pc = "idle"
          /\ \A i \in 1..Len(timers) : timers[i].owner \notin Handlers

\* An oversized file that also fails the type and the extension check has just
\* been rejected with the size message.
C1_Witness ==
  /\ lastOp.op = "handleFileUpload"
  /\ \E k \in 1..Len(validated) :
       /\ TooLarge(validated[k].file)
       /\ ~TypeAllowed(validated[k].file)
       /\ ~ExtensionAllowed(validated[k].file)
       /\ validated[k].result.error = ErrSize
  /\ \E k \in 1..Len(toasts) : toasts[k].kind = "error" /\ toasts[k].message = ErrSize
  /\ documents = sampleDocuments

\* C2: for a file within the size limit the type check and the extension check
\* gate independently: a type outside its allow-list is rejected (with the type
\* message), an extension outside its allow-list is rejected (with the extension
\* message when the type passed), and neither message is given exactly when both
\* are allowed; a file is valid only if both are allowed.
C2_TypeAndExtensionGate ==
  \A k \in 1..Len(validated) :
    LET file == validated[k].file
        result == validated[k].result
    IN ~TooLarge(file) =>
         /\ ~TypeAllowed(file) => ~result.isValid /\ result.error = ErrType
         /\ ~ExtensionAllowed(file) => ~result.isValid
         /\ (TypeAllowed(file) /\ ~ExtensionAllowed(file)) => result.error = ErrExtension
         /\ (TypeAllowed(file) /\ ExtensionAllowed(file)) <=> result.error \notin {ErrType, ErrExtension}
         /\ result.isValid => TypeAllowed(file) /\ ExtensionAllowed(file)

\* A file of an allowed type and a forbidden extension has just been rejected.
C2_Witness ==
  \E k \in 1..Len(validated) :
    /\ ~TooLarge(validated[k].file)
    /\ TypeAllowed(validated[k].file)
    /\ ~ExtensionAllowed(validated[k].file)
    /\ validated[k].result = [isValid |-> FALSE, error |-> ErrExtension]

\* C3: a file whose name is the name of a record of the collection is rejected by
\* validateFile, so no upload of it starts.  (The collection keeps its names
\* during the task that validates.)
C3_DuplicateNameRejected ==
  \A k \in 1..Len(validated) :
    NameExists(documents, validated[k].file.name) => ~validated[k].result.isValid


\* C4 (as stated): once the processDocument timer of an uploaded record has run,
\* the record is in the collection with status 'processed', processedAt set and no
\* errorMessage.
C4_ProcessedOnceCompletionRuns ==
  lastOp.op = "processDocument" =>
    \A id \in lastOp.ids \ SampleIds :
      \E i \in 1..Len(documents) :
        /\ documents[i].id = id
        /\ documents[i].status = "processed"
        /\ documents[i].processedAt # Undefined
        /\ documents[i].errorMessage = Undefined

\* The ids uploadDocument can make within the bounds.
UploadIds == {NewId(t, r) : t \in StartTime..(StartTime + MaxTicks), r \in 0..(2 * MaxOps)}

Processing(id) == \E i \in 1..Len(documents) : documents[i].id = id /\ documents[i].status = "processing"

ProcessedOrGone(id) ==
  \A i \in 1..Len(documents) :
    documents[i].id = id =>
      /\ documents[i].status = "processed"
      /\ documents[i].processedAt # Undefined
      /\ documents[i].errorMessage = Undefined

\* C4 (amended): right after uploadDocument has stored a file its record heads the
\* collection with status 'processing' and a timer is pending for it; when that
\* timer has run, the record, if it is still in the collection, is 'processed'
\* with processedAt set and no errorMessage; and, timers firing, every record in
\* 'processing' gets there or leaves the collection.
C4_ProcessedUnlessRemoved ==
  /\ [](lastOp.op = "uploadDocument" =>
          /\ documents[1].id \in lastOp.ids
          /\ documents[1].status = "processing"
          /\ documents[1].processedAt = Undefined
          /\ documents[1].errorMessage = Undefined
          /\ \E i \in 1..Len(timers) : timers[i].id = documents[1].id)
  /\ [](lastOp.op = "processDocument" => \A id \in lastOp.ids : ProcessedOrGone(id))
  /\ \A id \in UploadIds : Processing(id) ~> (~Processing(id) /\ ProcessedOrGone(id))

\* The timer of an uploaded record has just run and the record is processed.
C4_Witness ==
  /\ lastOp.op = "processDocument"
  /\ \E i \in 1..Len(documents) :
       /\ documents[i].id \in lastOp.ids \ SampleIds
       /\ documents[i].status = "processed"
       /\ documents[i].processedAt = Some(now)
       /\ documents[i].errorMessage = Undefined

\* C5: retryProcessing on a record that is not in 'error' changes neither the
\* collection nor the pending timers.
C5_RetryOnlyFromError ==
  [][(/\ lastOp'.op = "retryProcessing"
      /\ \E i \in 1..Len(documents) :
           documents[i].id \in lastOp'.ids /\ documents[i].status # "error")
     => (documents' = documents /\ timers' = timers)]_vars

\* C6: deleteDocument(id) removes the record of that id, and nothing else, when
\* there is one; it reports 'Document not found' and leaves the collection as it
\* is when there is none, and that is what a second deleteDocument(id) right
\* after the first does.
C6_DeleteTwice ==
  [][lastOp'.op = "deleteDocument" =>
       \A id \in lastOp'.ids :
         /\ id \notin Ids(documents')
         /\ id \in Ids(documents) =>
              /\ Len(documents') = Len(documents) - 1
              /\ \A i \in 1..Len(documents) :
                   documents[i].id # id => documents[i] \in Range(documents')
              /\ toasts' = <<Toast("success", "Document Deleted",
                                   "has been permanently removed", 0)>>
         /\ id \notin Ids(documents) =>
              /\ documents' = documents
              /\ toasts' = <<Toast("error", "Delete Failed", "Document not found", 0)>>
         /\ (lastOp.op = "deleteDocument" /\ lastOp.ids = lastOp'.ids) =>
              /\ documents' = documents
              /\ toasts' = <<Toast("error", "Delete Failed", "Document not found", 0)>>
    ]_vars

\* deleteDocument has just reported 'Document not found' for the id of a sample
\* record that the operation before it removed.
C6_Witness ==
  /\ lastOp.op = "deleteDocument"
  /\ lastOp.ids \subseteq SampleIds
  /\ lastOp.removed = <<>>
  /\ Ids(documents) = SampleIds \ lastOp.ids
  /\ toasts = <<Toast("error", "Delete Failed", "Document not found", 0)>>


\* s is t with some elements left out, the others in the same order.
RECURSIVE IsSubsequence(_, _)
IsSubsequence(s, t) ==
  IF s = <<>> THEN TRUE
  ELSE IF t = <<>> THEN FALSE
  ELSE IF Head(s) = Head(t) THEN IsSubsequence(Tail(s), Tail(t))
  ELSE IsSubsequence(s, Tail(t))

\* C7: bulkDeleteDocuments(ids) removes exactly the records whose id is in ids,
\* keeps the others in their order, and reports the number of records removed;
\* when no id matches it warns 'No Documents' and changes nothing.
C7_BulkDeleteExact ==
  [][lastOp'.op = "bulkDeleteDocuments" =>
       LET ids == lastOp'.ids
           matching == {i \in 1..Len(documents) : documents[i].id \in ids}
       IN /\ IsSubsequence(documents', documents)
          /\ Ids(documents') = Ids(documents) \ ids
          /\ Len(documents') = Len(documents) - Cardinality(matching)
          /\ IF matching = {}
               THEN /\ documents' = documents
                    /\ toasts' = <<Toast("warning", "No Documents",
                                         "No documents selected for deletion", 0)>>
               ELSE /\ Len(toasts') = 1
                    /\ toasts'[1].title = "Bulk Delete Complete"
                    /\ toasts'[1].n = Len(documents) - Len(documents')
    ]_vars

\* A bulk delete of one known and one unknown id has just removed one record
\* and reported 1.
C7_Witness ==
  /\ lastOp.op = "bulkDeleteDocuments"
  /\ UnknownId \in lastOp.ids
  /\ Cardinality(lastOp.ids) = 2
  /\ Len(lastOp.removed) = 1
  /\ lastOp.removed[1].id \in lastOp.ids
  /\ Len(documents) = Len(sampleDocuments) - 1
  /\ toasts = <<Toast("success", "Bulk Delete Complete", "document(s) have been deleted", 1)>>

SameGroup(a, b) == a.name = b.name /\ a.size = b.size

\* C8: cleanupRedundantData removes every record that shares its (name, size)
\* with a record uploaded later, and keeps a record that was uploaded later than
\* every other record of its (name, size): of a group with different uploadedAt
\* only the most recently uploaded record stays.
C8_CleanupKeepsLatest ==
  [][lastOp'.op = "cleanupRedundantData" =>
       \A i \in 1..Len(documents) :
         LET doc == documents[i]
             others == {j \in 1..Len(documents) : j # i /\ SameGroup(documents[j], doc)}
         IN /\ (\E j \in others : documents[j].uploadedAt > doc.uploadedAt)
                 => doc.id \notin Ids(documents')
            /\ (\A j \in others : documents[j].uploadedAt < doc.uploadedAt)
                 => doc \in Range(documents')
    ]_vars

\* A cleanup has just removed the older of two records of the same name and
\* size and kept the later one.
C8_Witness ==
  /\ lastOp.op = "cleanupRedundantData"
  /\ Len(lastOp.removed) = 1
  /\ \E i \in 1..Len(documents) :
       /\ SameGroup(documents[i], lastOp.removed[1])
       /\ documents[i].uploadedAt > lastOp.removed[1].uploadedAt
       /\ \A j \in 1..Len(documents) : SameGroup(documents[j], documents[i]) => j = i
  /\ toasts = <<Toast("success", "Cleanup Complete", "redundant document(s) removed", 1)>>

\* The sum of size over the records at the positions in S.
RECURSIVE SizeOfPositions(_)
SizeOfPositions(S) ==
  IF S = {} THEN 0
  ELSE LET i == CHOOSE j \in S : TRUE
       IN documents[i].size + SizeOfPositions(S \ {i})

\* C9: in every state stats.totalSize is the sum of size over the records of the
\* collection, stats.totalFiles their number, and the three per-status counts
\* add up to totalFiles.
C9_StatsMatchCollection ==
  LET s == stats
  IN /\ s.totalSize = SizeOfPositions(1..Len(documents))
     /\ s.totalFiles = Len(documents)
     /\ s.processingFiles + s.processedFiles + s.errorFiles = s.totalFiles
     /\ s.processingFiles = Cardinality({i \in 1..Len(documents) : documents[i].status = "processing"})

\* After an upload and a delete: a record is processing, a sample is gone, and
\* the statistics count the three records left.
C9_Witness ==
  /\ stats.processingFiles = 1
  /\ stats.totalFiles = 3
  /\ Ids(documents) \cap SampleIds # SampleIds
  /\ stats.totalSize = documents[1].size + documents[2].size + documents[3].size


AllowedStatusChanges ==
  {<<"processing", "processed">>, <<"processing", "error">>, <<"error", "processing">>}

\* C13: over every step, a record that stays in the collection keeps its status
\* or changes it from processing to processed, from processing to error with an
\* errorMessage, or from error to processing; never from processed to another
\* status nor from error to processed.
C13_StatusTransitions ==
  [][\A i \in 1..Len(documents), j \in 1..Len(documents') :
       (documents[i].id = documents'[j].id /\ documents[i].status # documents'[j].status)
         => /\ <<documents[i].status, documents'[j].status>> \in AllowedStatusChanges
            /\ documents'[j].status = "error" => documents'[j].errorMessage # Undefined
    ]_vars


\* C14: no two records of the collection have the same id.
C14_UniqueIds ==
  \A i \in 1..Len(documents), j \in 1..Len(documents) :
    documents[i].id = documents[j].id => i = j


\* ============================================================== query engine
\* The results delivered so far.
Results == Range(queryHistory)

MentionsPreExisting(query) == Includes(QueryToLowerCase(query), TPreExisting)

\* C10: every result of a query whose text contains 'pre-existing', in any
\* letter case and whatever else the query contains, has decision 'rejected',
\* amount '$0' and confidence 96.
C10_PreExistingRejected ==
  \A result \in Results \cup Range(lastResult) :
    MentionsPreExisting(result.query) =>
      /\ result.decision = "rejected"
      /\ result.amount = "$0"
      /\ result.confidence = 96

\* Two such queries have been answered: one typed in capitals that also asks
\* for dental treatment, one that also names knee surgery.
C10_Witness ==
  /\ \E result \in Results :
       /\ result.query = QPreExistingDental
       /\ SubSeq(result.query, 1, 3) = <<"P", "R", "E">>
       /\ Includes(QueryToLowerCase(result.query), TDental)
       /\ result.decision = "rejected"
  /\ \E result \in Results :
       /\ Includes(result.query, TPreExisting)
       /\ Includes(result.query, TKneeSurgery)
       /\ result.amount = "$0"
       /\ result.confidence = 96


\* The results delivered for the first sample query of the page.
SampleResults == {result \in Results : result.query = sampleQueries[1]}

\* C11: the result of '46-year-old male, knee surgery in Pune, 3-month-old
\* insurance policy' holds Age '46 years', Gender 'Male', Procedure 'Knee
\* Surgery', Location 'Pune, India' and Policy Age '3 months', in this order,
\* and is approved with confidence 94 and amount '$12,500'.
C11_SampleQueryExtraction ==
  \A result \in SampleResults :
    /\ result.extractedInfo =
         << [type |-> "Age", value |-> "46 years"],
            [type |-> "Gender", value |-> "Male"],
            [type |-> "Procedure", value |-> "Knee Surgery"],
            [type |-> "Location", value |-> "Pune, India"],
            [type |-> "Policy Age", value |-> "3 months"] >>
    /\ result.decision = "approved"
    /\ result.confidence = 94
    /\ result.amount = "$12,500"

\* The sample query has been answered, and it is the latest answer.
C11_Witness ==
  /\ SampleResults # {}
  /\ lastResult # Undefined
  /\ lastResult[1].query = sampleQueries[1]
  /\ Len(lastResult[1].extractedInfo) = 5


\* ============================================================ document store
\* C19: the step in which the timer of processDocument(id) fires keeps the
\* length and the order of the collection, leaves every record of another id
\* as it was and changes at most status and processedAt of the record of id;
\* when no record has that id the collection is unchanged.
CompletionOf(i) ==
  /\ i \in 1..Len(timers)
  /\ timers' = RemoveAt(timers, i)
  /\ lastOp'.op = "processDocument"

OnlyStatusAndProcessedAt(old, new) ==
  /\ DOMAIN new = DOMAIN old
  /\ \A f \in DOMAIN old \ {"status", "processedAt"} : new[f] = old[f]

C19_DeletedBeforeCompletion ==
  /\ lastOp.op = "processDocument"
  /\ lastOp.ids \cap Ids(documents) = {}

\* C23: updateDocument(id, updates) keeps the length and the order of the
\* collection and every record of another id; in the record of id the fields of
\* updates take the supplied values and the other fields stay as they were;
\* when no record has the id the collection is unchanged.
UpdateOf(id) ==
  /\ lastOp' = Op("updateDocument", {id}, <<>>)
  /\ nOps' = nOps + 1

Updated(old, new, updates) ==
  /\ DOMAIN new = DOMAIN old
  /\ \A f \in DOMAIN old :
       new[f] = IF f \in DOMAIN updates THEN updates[f] ELSE old[f]

C23_UpdateTouchesOnlySuppliedFields ==
  [][\A id \in IdInputs :
       UpdateOf(id) =>
         /\ Len(documents') = Len(documents)
         /\ \E updates \in UpdateInputs(id) :
              \A k \in 1..Len(documents) :
                IF documents[k].id = id
                  THEN Updated(documents[k], documents'[k], updates)
                  ELSE documents'[k] = documents[k]
         /\ id \notin Ids(documents) => documents' = documents]_vars

\* A record that is not the first one has been renamed, and then an update of
\* an unknown id has run.
C23_Witness ==
  /\ lastOp = Op("updateDocument", {UnknownId}, <<>>)
  /\ \E k \in 2..Len(documents) :
       /\ documents[k].id \in SampleIds
       /\ documents[k].name = NReport
  /\ Len(documents) = Len(sampleDocuments)

\* C24, as stated: a cleanup removes the records in 'error' uploaded more than
\* seven days before now that its first pass left, never removes a record that
\* is processing or processed and alone with its (name, size), never removes a
\* record in 'error' uploaded within the last seven days, and reports the
\* number of records it removed.
CleanupStep ==
  /\ lastOp'.op = "cleanupRedundantData"
  /\ nOps' = nOps + 1

Alone(doc) ==
  \A j \in 1..Len(documents) : SameGroup(documents[j], doc) => documents[j] = doc

Stale(doc) == doc.status = "error" /\ doc.uploadedAt < now - sevenDays

Removed(doc) == doc.id \notin Ids(documents')

ReportedCount ==
  IF Len(documents') < Len(documents)
    THEN toasts' = <<Toast("success", "Cleanup Complete", "redundant document(s) removed",
                           Len(documents) - Len(documents'))>>
    ELSE toasts' = <<Toast("info", "Cleanup Complete",
                           "No redundant data found to clean up", 0)>>

Ingested == {i \in 1..Len(documents) : documents[i].id \notin SampleIds}

C25_IngestedNamesUnique ==
  \A i, j \in Ingested : documents[i].name = documents[j].name => i = j

\* C28: currentPage is between 1 and max(1, totalPages), and the page shown
\* has a record whenever the filtered list has one.
C28_CurrentPageInRange ==
  /\ currentPage \in 1..Max(1, TotalPages)
  /\ Filtered # <<>> => paginatedDocuments(Filtered, currentPage) # <<>>

\* C29: the entries of the selection that are free of error, which handleUpload
\* would pass on, are never more than maxFiles.
C29_ErrorFreeWithinLimit == Len(ErrorFree(selectedFiles)) <= maxFiles

\* C30: from reset until the next press of Process Content, status stays
\* 'idle', progress stays 0, processedContent stays empty and onProcess is not
\* called.
C30_ResetIsFinal ==
  [][boxOp = "reset" /\ boxOp' = "reset" =>
       /\ boxStatus' = "idle"
       /\ progress' = 0
       /\ processedContent' = <<>>
       /\ delivered' = delivered]_vars

\* C20: the count that an 'Upload Complete' notification reports as uploaded
\* successfully is the number of records its handleFileUpload call created, so
\* that a file validateFile rejected is not among the uploaded ones.
UploadComplete(toast) == toast.kind = "success" /\ toast.title = "Upload Complete"

C20_ReportedCountIsRecordsCreated ==
  \A i \in 1..Len(toasts) :
    UploadComplete(toasts[i]) => \E h \in Handlers : toasts[i].n = created[h]

\* ============================================================== query engine
\* C21: every result has the outcome of the first keyword, in the order
\* pre-existing or heart surgery, knee surgery, dental, emergency, that its
\* lowercased query contains: rejected with 96 and '$0', or approved with 94
\* and '$12,500', 89 and '$2,800', 92 and '$8,750'; a query with none of them
\* is approved with a confidence of 75 to 94 and an amount of $1000 to $10999;
\* no result is 'pending'.
Mentions(query, words) == Includes(QueryFacts[query].lowerQuery, words)

Outcome(result) == Decision(result.decision, result.confidence, result.amount)

FallbackAmounts == {"$" \o ToString(n) : n \in 1000..10999}

C21_DecisionByPriority ==
  \A result \in Results \cup Range(lastResult) :
    /\ result.decision # "pending"
    /\ IF Mentions(result.query, TPreExisting) \/ Mentions(result.query, THeartSurgery)
         THEN Outcome(result) = Decision("rejected", 96, "$0")
       ELSE IF Mentions(result.query, TKneeSurgery)
         THEN Outcome(result) = Decision("approved", 94, "$12,500")
       ELSE IF Mentions(result.query, TDental)
         THEN Outcome(result) = Decision("approved", 89, "$2,800")
       ELSE IF Mentions(result.query, TEmergency)
         THEN Outcome(result) = Decision("approved", 92, "$8,750")
       ELSE /\ result.decision = "approved"
            /\ result.confidence \in 75..94
            /\ result.amount \in FallbackAmounts

\* A query naming knee surgery, dental and emergency has been answered as knee
\* surgery, and a query with no keyword has been answered by the last branch.
C21_Witness ==
  /\ \E result \in Results :
       /\ Mentions(result.query, TKneeSurgery)
       /\ Mentions(result.query, TDental)
       /\ Mentions(result.query, TEmergency)
       /\ result.amount = "$12,500"
  /\ \E result \in Results :
       /\ result.query = QCheckup
       /\ result.confidence = 93
       /\ result.amount = "$10000"

\* C22: a result holds at most one Gender pair: 'Female' when its lowercased
\* query contains 'female', 'Male' when it contains 'male' and not 'female',
\* none when it contains neither.
GenderPairs(result) ==
  SelectSeq(result.extractedInfo, LAMBDA info : info.type = "Gender")

C22_GenderByWord ==
  \A result \in Results \cup Range(lastResult) :
    GenderPairs(result) =
      IF Mentions(result.query, TFemale) THEN <<Info("Gender", "Female")>>
      ELSE IF Mentions(result.query, TMale) THEN <<Info("Gender", "Male")>>
      ELSE <<>>

\* C18: the history only grows at its head, by one result each time a
\* processQuery call completes, that result being the one of the completed
\* query; no other step changes it; and lastResult is the head of the history
\* whenever the history is non-empty (null while it is empty).
Completes(i) ==
  /\ i \in 1..Len(pendingQueries)
  /\ pendingQueries' = RemoveAt(pendingQueries, i)
  /\ Len(queryHistory') = Len(queryHistory) + 1
  /\ Tail(queryHistory') = queryHistory
  /\ Head(queryHistory').query = pendingQueries[i]

LastResultIsHead ==
  IF queryHistory = <<>> THEN lastResult = Undefined
                         ELSE lastResult = Some(Head(queryHistory))

C18_HistoryAppendOnly ==
  /\ []LastResultIsHead
  /\ [][IF Len(pendingQueries') < Len(pendingQueries)
          THEN \E i \in 1..Len(pendingQueries) : Completes(i)
          ELSE queryHistory' = queryHistory]_vars

\* Two queries have completed: the checkup query, then the first sample query.
C18_Witness ==
  /\ Len(queryHistory) = 2
  /\ pendingQueries = <<>>
  /\ queryHistory[2].query = QCheckup
  /\ queryHistory[1].query = sampleQueries[1]

\* C27: isProcessing is true exactly in the states in which a processQuery call
\* has started and has not delivered its result.
InFlight == Len(pendingQueries)

C27_ProcessingWhileInFlight == isProcessing <=> InFlight > 0

\* ============================================================ authentication
\* The login call that settles in this step.
Settles(i) ==
  /\ i \in 1..Len(pendingLogins)
  /\ authOp'.op = "login settled"
  /\ pendingLogins' = RemoveAt(pendingLogins, i)

\* The credential table accepts the call: its lowercased email is a key and the
\* password is that entry's.
Accepted(call) ==
  \E key \in DOMAIN demoUsers :
    /\ key = ToLowerCase(call.email)
    /\ demoUsers[key].password = call.password

\* C15: a login that settles succeeds exactly when the table accepts it, and then
\* the session user is that entry's user record, stamped with the time of the
\* login; otherwise it throws 'Invalid credentials' and leaves the session user
\* and the storage as they were; either way isLoading is false afterwards.
C15_LoginByCredentialTable ==
  [][\A i \in 1..Len(pendingLogins) :
       Settles(i) =>
         LET call == pendingLogins[i]
         IN /\ isLoading' = FALSE
            /\ (authOp'.error = Undefined) <=> Accepted(call)
            /\ Accepted(call) =>
                 \E key \in DOMAIN demoUsers :
                   /\ key = ToLowerCase(call.email)
                   /\ user' = Some([demoUsers[key].user EXCEPT
                                      !.lastLogin = Some(toISOString(now))])
            /\ ~Accepted(call) =>
                 /\ authOp'.error = Some("Invalid credentials")
                 /\ user' = user
                 /\ localStorage' = localStorage
    ]_vars

\* A login typed with capitals has put the administrator in the session, and a
\* later login with a wrong password has failed and left the session as it was.
C15_Witness ==
  /\ authOp = AuthOp("login settled", Some("Invalid credentials"))
  /\ user # Undefined
  /\ user[1].email = "admin@docintel.com"
  /\ user[1].lastLogin = Some(toISOString(now))
  /\ pendingLogins = <<>>
  /\ ~isLoading

Remembered == localStorage["docintel_remember"] = Some(<<"text", "true">>)
StoredUser == localStorage["docintel_user"]

\* C16: the key 'docintel_user' is present only while 'docintel_remember' is
\* 'true'; a login that succeeds without remember-me leaves both keys absent;
\* right after logout the session user is null and both keys are absent.
C16_PersistedOnlyWhenRemembered ==
  /\ [](StoredUser # Undefined => Remembered)
  /\ [][\A i \in 1..Len(pendingLogins) :
          (Settles(i) /\ authOp'.error = Undefined /\ ~pendingLogins[i].rememberMe)
            => localStorage' = EmptyStorage]_vars
  /\ [][(authOp'.op = "logout" /\ nOps' = nOps + 1)
          => (user' = Undefined /\ localStorage' = EmptyStorage)]_vars

\* A user who logged in with remember-me has been renamed and the stored copy
\* follows.
C16_Witness ==
  /\ authOp.op = "updateUser"
  /\ Remembered
  /\ StoredUser = Some(stringify(user[1]))
  /\ user[1].name = "J. Doe"
  /\ user[1].email = "admin@docintel.com"

\* C26: while logout is the last operation of the provider, every login still
\* waiting in its delay was requested before it, and the step that comes next
\* leaves the session user null and the two keys of the session absent.
AfterLogout == authOp.op = "logout"

SessionKeysAbsent(storage) ==
  storage["docintel_user"] = Undefined /\ storage["docintel_remember"] = Undefined

C26_LogoutIsFinal ==
  [][AfterLogout => user' = Undefined /\ SessionKeysAbsent(localStorage')]_vars

\* ====================================================== file storage manager
\* C17: when localStorage.setItem throws inside an operation of
\* FileStorageManager, the step leaves the stored text as it was and the
\* operation reports failure: storeFile throws 'Failed to store file' and
\* returns nothing, deleteFile and updateFile return false, deleteFiles
\* returns 0, cleanup returns zero removed files and zero freed bytes.
WriteThrew == fileOp.write = "threw"

FailureReported(op) ==
  /\ op.op = "storeFile" =>
       op.error = Some("Failed to store file") /\ op.value = Undefined
  /\ op.op \in {"deleteFile", "updateFile"} =>
       op.error = Undefined /\ op.value = Some(FALSE)
  /\ op.op = "deleteFiles" => op.error = Undefined /\ op.value = Some(0)
  /\ op.op = "cleanup" =>
       op.error = Undefined /\ op.value = Some(CleanupCounts(0, 0))

C17_WriteFailureReported ==
  [][WriteThrew' =>
       /\ localStorage' = localStorage
       /\ fileOp'.op \in {"storeFile", "deleteFile", "deleteFiles", "updateFile",
                          "cleanup"}
       /\ FailureReported(fileOp')]_vars

\* cleanup found files to remove and its write threw.
C17_Witness ==
  /\ WriteThrew
  /\ fileOp.op = "cleanup"
  /\ \E i \in 1..Len(getAllFiles(localStorage)) :
       Removable(getAllFiles(localStorage)[i], now)

====
